---------------------------- MODULE Spec2Model ----------------------------
(***************************************************************************)
(* State-machine model of the crustpoint e-paper driver                    *)
(* (src/src/eink_display/mod.rs).  Every driver method is straight-line    *)
(* async code: a fixed list of steps (bus writes, busy waits, pin changes, *)
(* field updates), each of which is a suspension point that can succeed or *)
(* fail.  A method is therefore modelled as the list of its steps, computed *)
(* from its arguments and the fields it reads, and executed one step per   *)
(* action.                                                                 *)
(***************************************************************************)
EXTENDS Integers, Sequences, FiniteSets, TLC

VARIABLES
    is_screen_on,          \* EinkDisplay.is_screen_on
    is_custom_lut_active,  \* EinkDisplay.is_custom_lut_active
    data_command,          \* level of the data/command pin: "low" | "high"
    reset,                 \* level of the reset pin: "low" | "high"
    busy,                  \* level of the busy input: TRUE = high = busy
    overflow_checks,       \* build flag: TRUE = arithmetic overflow panics
    driver,                \* TRUE when the caller holds a constructed driver
    call,                  \* the method being executed, with its arguments
    ops,                   \* the steps of that method
    pc,                    \* index of the next step of the method
    phase,                 \* "idle" | "running" | "done"
    result,                \* <<"Ok">>, an error path, or <<>> while running
    trace,                 \* what the current (or last) call did, in order
    waited,                \* ticks spent in the current busy wait
    asleep,                \* history: enter_deep_sleep returned Ok, no reset since
    low_seen,              \* history: busy was low at some moment of this call
    buffer,                \* Frame.buffer: the bytes that are not 0xFF, by index
    pixels,                \* the pixels draw_iter has taken from its iterator
    draw,                  \* "idle" | "drawing" | "Ok" | "OutOfBounds" | "panic"
    lock,                  \* holder of each bus mutex: a device or "free"
    chip_select,           \* level of each device's chip-select: "high" | "low"
    handle,                \* where each device handle is in its transaction
    wire,                  \* who drove each byte on the bus since it was last idle
    task,                  \* where run() and then handle_power_button are
    values,                \* the readings of pins one and two at the last poll
    buttons                \* what get_active_button returned for each of them

\* the driver, the frame buffer, the shared bus, the application
drivervars ==
    <<is_screen_on, is_custom_lut_active, data_command, reset, busy,
      overflow_checks, driver, call, ops, pc, phase, result, trace, waited,
      asleep, low_seen>>

framevars ==
    <<buffer, pixels, draw>>

busvars ==
    <<lock, chip_select, handle, wire>>

appvars ==
    <<task, values, buttons>>

vars ==
    <<is_screen_on, is_custom_lut_active, data_command, reset, busy,
      overflow_checks, driver, call, ops, pc, phase, result, trace, waited,
      asleep, low_seen, buffer, pixels, draw, lock, chip_select, handle, wire,
      task, values, buttons>>

---------------------------------------------------------------------------
(* Bounds of the model *)

\* Length of the frame buffer handed to display (48000 in the program).
FrameLen ==
    2

\* Number of timer ticks after which with_timeout gives up.
TimeoutTicks ==
    2

\* Largest number of pixels an iterator handed to draw_iter yields.
MaxPixels ==
    3

\* Largest number of bytes of one write of a device handle.
MaxWrite ==
    2

---------------------------------------------------------------------------
(* Program constants *)

DISPLAY_WIDTH ==
    800

DISPLAY_HEIGHT ==
    480

\* enum Command
SoftReset ==
    18
TemperatureSensorControl ==
    24
BoosterSoftStart ==
    12
DriverOutputControl ==
    1
BorderWaveformControl ==
    60
DataEntryMode ==
    17
SetRamXRange ==
    68
SetRamYRange ==
    69
SetRamXCounter ==
    78
SetRamYCounter ==
    79
AutoWriteBwRam ==
    70
AutoWriteRedRam ==
    71
WriteBwRam ==
    36
WriteRedRam ==
    38
DisplayUpdateControl1 ==
    33
DisplayUpdateControl2 ==
    34
MasterActivation ==
    32
WriteTemperature ==
    26
DeepSleep ==
    16

\* enum ControlMode
Normal ==
    0
BypassRed ==
    64

\* enum RefreshMode
RefreshMode ==
    {"Fast", "Full", "HalfRefresh"}

---------------------------------------------------------------------------
(* Integer helpers: u8 bit operations and u16 arithmetic *)

RECURSIVE BitOr(_, _, _)
\* Bitwise OR of the low n bits of a and b.
BitOr(a, b, n) ==
    IF n = 0 THEN 0
    ELSE (IF (a % 2 = 1) \/ (b % 2 = 1) THEN 1 ELSE 0)
         + 2 * BitOr(a \div 2, b \div 2, n - 1)

\* u8 | u8
Or8(a, b) ==
    BitOr(a, b, 8)

\* u16 + u16 and u16 - u16, as a build without overflow checks computes them
Add16(a, b) ==
    (a + b) % 65536

Sub16(a, b) ==
    (a - b + 65536) % 65536

\* (v % 256) as u8 and (v / 256) as u8
LowByte(v) ==
    v % 256

HighByte(v) ==
    (v \div 256) % 256

---------------------------------------------------------------------------
(* Steps of a method.  path names the enclosing sub-calls whose error type *)
(* wraps a failure of the step: the error returned is path \o <<kind>>.    *)

Step(op, bytes, level, flag, ms) ==
    [op |-> op, bytes |-> bytes, path |-> <<>>, level |-> level,
     flag |-> flag, ms |-> ms]

\* self.send_command(command).await?
OpCmd(b) ==
    Step("cmd", <<b>>, "", FALSE, 0)

\* self.send_data(bytes).await?
OpData(bytes) ==
    Step("data", bytes, "", FALSE, 0)

\* self.wait_for_busy().await?
OpWait ==
    Step("wait", <<>>, "", FALSE, 0)

\* self.is_screen_on = flag
OpScreen(flag) ==
    Step("screen", <<>>, "", flag, 0)

\* self.data_command.set_high()
OpDc(level) ==
    Step("dc", <<>>, level, FALSE, 0)

\* self.reset.set_high() / set_low()
OpReset(level) ==
    Step("reset", <<>>, level, FALSE, 0)

\* Timer::after_millis(ms).await
OpDelay(ms) ==
    Step("delay", <<>>, "", FALSE, ms)

\* Self::new(..)?
OpNew ==
    Step("new", <<>>, "", FALSE, 0)

\* an arithmetic overflow in a build with overflow checks
OpPanic ==
    Step("panic", <<>>, "", FALSE, 0)

\* The steps of a sub-call, whose errors the caller converts with `?` into
\* its own error variant `tag` (#[from]).
Wrap(tag, steps) ==
    [i \in 1..Len(steps) |-> [steps[i] EXCEPT !.path = <<tag>> \o @]]

\* send_data(&[value as u8]) where computing value may overflow
DataOrPanic(byte, overflows, checked) ==
    IF overflows /\ checked THEN <<OpPanic>> ELSE <<OpData(<<byte>>)>>

---------------------------------------------------------------------------
(* set_ram_area *)

DATA_ENTRY_X_INC_Y_DEC ==
    1

\* variant: the gates taken as not reversed
UnreversedY(y, height) ==
    y

\* let y = Self::DISPLAY_HEIGHT - y - height;
ReversedY(y, height) ==
    Sub16(Sub16(DISPLAY_HEIGHT, y), height)

ReversedYOverflows(y, height) ==
    (y > DISPLAY_HEIGHT) \/ (DISPLAY_HEIGHT - y < height)

\* x + width - 1   (also y + height - 1, with the reversed y)
WindowEnd(start, size) ==
    Sub16(Add16(start, size), 1)

WindowEndOverflows(start, size) ==
    (start + size > 65535) \/ (start + size < 1)

\* variant: only the start of the X range is programmed after 0x44
SetRamAreaOpsXStartOnly(x, y0, width, height, checked) ==
    LET y    == ReversedY(y0, height)
        ye   == WindowEnd(y, height)
        yo   == WindowEndOverflows(y, height)
    IN  (IF ReversedYOverflows(y0, height) /\ checked THEN <<OpPanic>> ELSE <<>>)
        \o <<OpCmd(DataEntryMode), OpData(<<DATA_ENTRY_X_INC_Y_DEC>>)>>
        \o <<OpCmd(SetRamXRange), OpData(<<LowByte(x)>>), OpData(<<HighByte(x)>>)>>
        \o <<OpCmd(SetRamYRange)>>
        \o DataOrPanic(LowByte(ye), yo, checked)
        \o DataOrPanic(HighByte(ye), yo, checked)
        \o <<OpData(<<LowByte(y)>>), OpData(<<HighByte(y)>>)>>
        \o <<OpCmd(SetRamXCounter), OpData(<<LowByte(x)>>), OpData(<<HighByte(x)>>)>>
        \o <<OpCmd(SetRamYCounter)>>
        \o DataOrPanic(LowByte(ye), yo, checked)
        \o DataOrPanic(HighByte(ye), yo, checked)

SetRamAreaOps(x, y0, width, height, checked) ==
    LET y    == ReversedY(y0, height)
        xe   == WindowEnd(x, width)
        ye   == WindowEnd(y, height)
        xo   == WindowEndOverflows(x, width)
        yo   == WindowEndOverflows(y, height)
    IN  (IF ReversedYOverflows(y0, height) /\ checked THEN <<OpPanic>> ELSE <<>>)
        \o <<OpCmd(DataEntryMode), OpData(<<DATA_ENTRY_X_INC_Y_DEC>>)>>
        \o <<OpCmd(SetRamXRange), OpData(<<LowByte(x)>>), OpData(<<HighByte(x)>>)>>
        \o DataOrPanic(LowByte(xe), xo, checked)
        \o DataOrPanic(HighByte(xe), xo, checked)
        \o <<OpCmd(SetRamYRange)>>
        \o DataOrPanic(LowByte(ye), yo, checked)
        \o DataOrPanic(HighByte(ye), yo, checked)
        \o <<OpData(<<LowByte(y)>>), OpData(<<HighByte(y)>>)>>
        \o <<OpCmd(SetRamXCounter), OpData(<<LowByte(x)>>), OpData(<<HighByte(x)>>)>>
        \o <<OpCmd(SetRamYCounter)>>
        \o DataOrPanic(LowByte(ye), yo, checked)
        \o DataOrPanic(HighByte(ye), yo, checked)

---------------------------------------------------------------------------
(* initialize_controller, reset, initialize *)

TEMPERATURE_SENSOR_INTERNAL ==
    128

\* variant: only the black/white plane is cleared
ClearBwRamOnlyOps ==
    <<OpCmd(AutoWriteBwRam), OpData(<<247>>), OpWait>>

\* "Clearing RAM buffers": auto write BW RAM, auto write Red RAM
ClearRamOps ==
    <<OpCmd(AutoWriteBwRam), OpData(<<247>>), OpWait,
      OpCmd(AutoWriteRedRam), OpData(<<247>>), OpWait>>

InitializeControllerOps(checked) ==
    <<OpCmd(SoftReset), OpWait>>
    \o <<OpCmd(TemperatureSensorControl), OpData(<<TEMPERATURE_SENSOR_INTERNAL>>)>>
    \o <<OpCmd(BoosterSoftStart), OpData(<<174>>), OpData(<<199>>), OpData(<<195>>),
         OpData(<<192>>), OpData(<<192>>), OpData(<<64>>)>>
    \o <<OpCmd(DriverOutputControl),
         OpData(<<LowByte(DISPLAY_HEIGHT - 1)>>),
         OpData(<<HighByte(DISPLAY_HEIGHT - 1)>>),
         OpData(<<2>>)>>
    \o <<OpCmd(BorderWaveformControl), OpData(<<1>>)>>
    \o Wrap("SetRamArea",
            SetRamAreaOps(0, 0, DISPLAY_WIDTH, DISPLAY_HEIGHT, checked))
    \o ClearRamOps

\* variant: the commands start right after the line is released
ResetOpsNoSettle ==
    <<OpReset("high"), OpDelay(20), OpReset("low"), OpDelay(2),
      OpReset("high")>>

\* reset(): high, 20 ms, low, 2 ms, high, 20 ms
ResetOps ==
    <<OpReset("high"), OpDelay(20), OpReset("low"), OpDelay(2),
      OpReset("high"), OpDelay(20)>>

\* variant: the controller is initialised before the hardware reset
InitializeOpsResetLast(checked) ==
    <<OpNew>>
    \o Wrap("InitializeController", InitializeControllerOps(checked))
    \o ResetOps

InitializeOps(checked) ==
    <<OpNew>>
    \o ResetOps
    \o Wrap("InitializeController", InitializeControllerOps(checked))

---------------------------------------------------------------------------
(* refresh *)

\* variant: the red plane bypassed in every mode
ComparisonModeAlwaysBypass(mode) ==
    BypassRed

\* match mode { Fast => Normal, Full | HalfRefresh => BypassRed } as u8
ComparisonMode(mode) ==
    IF mode = "Fast" THEN Normal ELSE BypassRed

\* variant: the two Fast patterns taken for each other
ModePatternLutSwapped(mode, lut) ==
    CASE mode = "Fast"        -> (IF lut THEN 28 ELSE 12)
      [] mode = "Full"        -> 52
      [] mode = "HalfRefresh" -> 212

\* the pattern `match mode` ORs into display_mode
ModePattern(mode, lut) ==
    CASE mode = "Fast"        -> (IF lut THEN 12 ELSE 28)
      [] mode = "Full"        -> 52
      [] mode = "HalfRefresh" -> 212

\* display_mode as built by refresh: 0x00, |= 0xC0 when the screen is off,
\* |= 0x03 when turn_screen_off, |= the mode's pattern
DisplayMode(mode, on, lut, turn_screen_off) ==
    LET d0 == 0
        d1 == IF ~on THEN Or8(d0, 192) ELSE d0
        d2 == IF turn_screen_off THEN Or8(d1, 3) ELSE d1
    IN  Or8(d2, ModePattern(mode, lut))

\* variant: the two `if` blocks in the other order
RefreshScreenOpsOffFirst(on, turn_screen_off) ==
    (IF turn_screen_off THEN <<OpScreen(FALSE)>> ELSE <<>>)
    \o (IF ~on THEN <<OpScreen(TRUE)>> ELSE <<>>)

\* the assignments refresh makes to self.is_screen_on, in order
RefreshScreenOps(on, turn_screen_off) ==
    (IF ~on THEN <<OpScreen(TRUE)>> ELSE <<>>)
    \o (IF turn_screen_off THEN <<OpScreen(FALSE)>> ELSE <<>>)

\* on, lut: self.is_screen_on and self.is_custom_lut_active as refresh reads
\* them; nothing between the entry of a call and these reads assigns them.
RefreshOps(mode, turn_screen_off, on, lut) ==
    <<OpCmd(DisplayUpdateControl1), OpData(<<ComparisonMode(mode), 0>>)>>
    \o RefreshScreenOps(on, turn_screen_off)
    \o (IF mode = "HalfRefresh"
        THEN <<OpCmd(WriteTemperature), OpData(<<90>>)>>
        ELSE <<>>)
    \o <<OpCmd(DisplayUpdateControl2),
         OpData(<<DisplayMode(mode, on, lut, turn_screen_off)>>),
         OpCmd(MasterActivation),
         OpWait>>

---------------------------------------------------------------------------
(* display *)

\* variant: the requested mode used as it is
EffectiveModeAsRequested(mode, on) ==
    mode

\* if !self.is_screen_on { refresh_mode = RefreshMode::HalfRefresh; }
EffectiveMode(mode, on) ==
    IF ~on THEN "HalfRefresh" ELSE mode

\* variant: both planes written in every mode
RamPlaneOpsBothAlways(mode, frame) ==
    <<OpCmd(WriteBwRam), OpData(frame), OpCmd(WriteRedRam), OpData(frame)>>

\* match refresh_mode { Fast => .., HalfRefresh | Full => .. }
RamPlaneOps(mode, frame) ==
    IF mode = "Fast"
    THEN <<OpCmd(WriteBwRam), OpDc("high"), OpData(frame)>>
    ELSE <<OpCmd(WriteBwRam), OpData(frame), OpCmd(WriteRedRam), OpData(frame)>>

\* variant: the errors of refresh returned without their wrapper
DisplayOpsRefreshUnwrapped(mode, frame, on, lut, checked) ==
    Wrap("SetRamArea",
         SetRamAreaOps(0, 0, DISPLAY_WIDTH, DISPLAY_HEIGHT, checked))
    \o RamPlaneOps(EffectiveMode(mode, on), frame)
    \o RefreshOps(EffectiveMode(mode, on), FALSE, on, lut)

\* variant: the refresh of display made with turn_screen_off = true
DisplayOpsTurnScreenOff(mode, frame, on, lut, checked) ==
    Wrap("SetRamArea",
         SetRamAreaOps(0, 0, DISPLAY_WIDTH, DISPLAY_HEIGHT, checked))
    \o RamPlaneOps(EffectiveMode(mode, on), frame)
    \o Wrap("Refresh", RefreshOps(EffectiveMode(mode, on), TRUE, on, lut))

DisplayOps(mode, frame, on, lut, checked) ==
    Wrap("SetRamArea",
         SetRamAreaOps(0, 0, DISPLAY_WIDTH, DISPLAY_HEIGHT, checked))
    \o RamPlaneOps(EffectiveMode(mode, on), frame)
    \o Wrap("Refresh", RefreshOps(EffectiveMode(mode, on), FALSE, on, lut))

---------------------------------------------------------------------------
(* enter_deep_sleep *)

\* variant: is_screen_on is cleared before the power-down is made
PowerDownOpsFlagFirst(on) ==
    IF on
    THEN <<OpScreen(FALSE),
           OpCmd(DisplayUpdateControl1), OpData(<<BypassRed>>),
           OpCmd(DisplayUpdateControl2), OpData(<<3>>),
           OpWait>>
    ELSE <<>>

\* variant: the power-down without the update of is_screen_on
PowerDownOpsFlagKept(on) ==
    IF on
    THEN <<OpCmd(DisplayUpdateControl1), OpData(<<BypassRed>>),
           OpCmd(DisplayUpdateControl2), OpData(<<3>>),
           OpWait>>
    ELSE <<>>

\* if self.is_screen_on { power down }
PowerDownOps(on) ==
    IF on
    THEN <<OpCmd(DisplayUpdateControl1), OpData(<<BypassRed>>),
           OpCmd(DisplayUpdateControl2), OpData(<<3>>),
           OpWait,
           OpScreen(FALSE)>>
    ELSE <<>>

EnterDeepSleepOps(on) ==
    PowerDownOps(on) \o <<OpCmd(DeepSleep), OpData(<<1>>)>>

---------------------------------------------------------------------------
(* Inputs *)

\* Frame buffers handed to display: all zero (the power-button task), the
\* first half 0x33 and the rest zero (run), all 0xFF (Frame::default).
Frames ==
    { [i \in 1..FrameLen |-> 0],
      [i \in 1..FrameLen |-> IF 2 * i <= FrameLen THEN 51 ELSE 0],
      [i \in 1..FrameLen |-> 255] }

\* Windows handed to set_ram_area: inside the panel, empty ones included.
WindowXs ==
    {0, 255, 544, 800}

WindowYs ==
    {0, 224, 479, 480}

WindowWidths ==
    {0, 1, 256, 800}

WindowHeights ==
    {0, 1, 256, 480}

Windows ==
    { w \in [x : WindowXs, y : WindowYs, w : WindowWidths, h : WindowHeights] :
        /\ w.x + w.w <= DISPLAY_WIDTH
        /\ w.y + w.h <= DISPLAY_HEIGHT }

---------------------------------------------------------------------------
(* Frame (frame.rs): the bit-packed buffer and draw_iter *)

\* const WIDTH_BYTES: usize = WIDTH / 8
WIDTH_BYTES ==
    DISPLAY_WIDTH \div 8

\* const BUFFER_SIZE: usize = WIDTH_BYTES * HEIGHT
BUFFER_SIZE ==
    WIDTH_BYTES * DISPLAY_HEIGHT

RECURSIVE BitAnd(_, _, _)
\* Bitwise AND of the low n bits of a and b.
BitAnd(a, b, n) ==
    IF n = 0 THEN 0
    ELSE (IF (a % 2 = 1) /\ (b % 2 = 1) THEN 1 ELSE 0)
         + 2 * BitAnd(a \div 2, b \div 2, n - 1)

\* u8 & u8, !u8
And8(a, b) ==
    BitAnd(a, b, 8)

Not8(a) ==
    255 - a

\* variant: a new frame starts with its first byte cleared
DefaultBufferFirstByteCleared ==
    [i \in {0} |-> 0]

\* buffer: [0b1111_1111; BUFFER_SIZE].  A buffer is kept as the function
\* from the indices whose byte is not 0xFF to that byte.
DefaultBuffer ==
    [i \in {} |-> 255]

\* self.buffer[index]
ReadByte(buf, index) ==
    IF index \in DOMAIN buf THEN buf[index] ELSE 255

\* self.buffer[index] = value
WriteByte(buf, index, value) ==
    IF value = 255
    THEN [j \in (DOMAIN buf) \ {index} |-> buf[j]]
    ELSE [j \in (DOMAIN buf) \cup {index} |-> IF j = index THEN value ELSE buf[j]]

\* u16::try_from(point.x) is Ok
FitsU16(v) ==
    v >= 0 /\ v <= 65535

\* variant: the pixel is refused only when both coordinates are outside
InRangeEither(x, y) ==
    x < DISPLAY_WIDTH \/ y < DISPLAY_HEIGHT

\* X_RANGE.contains(&x) && Y_RANGE.contains(&y)
InRange(x, y) ==
    x < DISPLAY_WIDTH /\ y < DISPLAY_HEIGHT

\* the pixel passes both conversions and the range check
Accepted(p) ==
    FitsU16(p.x) /\ FitsU16(p.y) /\ InRange(p.x, p.y)

\* variant: sixteen pixels of a row taken for one byte
AddressSixteenPerByte(x, y, checked) ==
    LET x_hardware      == y
        sub_overflows   == x > DISPLAY_HEIGHT
        y_hardware      == Sub16(DISPLAY_HEIGHT, x)
        dec_overflows   == y_hardware = 0
        y_index         == y_hardware - 1
        mul_overflows   == y_index < 0
        row_start       == y_index * WIDTH_BYTES
        row_pixel_index == x_hardware \div 16
        index           == row_start + row_pixel_index
        add_overflows   == row_start < 0 /\ index >= 0
        bit_index       == 7 - (x_hardware % 8)
    IN  [panic |-> \/ (checked /\ (sub_overflows \/ dec_overflows
                                   \/ mul_overflows \/ add_overflows))
                   \/ index < 0
                   \/ index >= BUFFER_SIZE,
         index |-> index,
         bit   |-> bit_index]

\* The address of an accepted pixel as draw_iter computes it.  usize is 32
\* bits wide on the target; a usize value v is kept here as the integer
\* congruent to it modulo 2^32 that the same operations give on integers
\* (y_hardware - 1 = -1 stands for 2^32 - 1), so a negative value stands
\* for one beyond every buffer index.  panic is TRUE when an operation
\* overflows in a build with overflow checks or when the index is outside
\* the buffer.
Address(x, y, checked) ==
    LET x_hardware      == y
        sub_overflows   == x > DISPLAY_HEIGHT
        y_hardware      == Sub16(DISPLAY_HEIGHT, x)
        dec_overflows   == y_hardware = 0
        y_index         == y_hardware - 1
        mul_overflows   == y_index < 0
        row_start       == y_index * WIDTH_BYTES
        row_pixel_index == x_hardware \div 8
        index           == row_start + row_pixel_index
        add_overflows   == row_start < 0 /\ index >= 0
        bit_index       == 7 - (x_hardware % 8)
    IN  [panic |-> \/ (checked /\ (sub_overflows \/ dec_overflows
                                   \/ mul_overflows \/ add_overflows))
                   \/ index < 0
                   \/ index >= BUFFER_SIZE,
         index |-> index,
         bit   |-> bit_index]

\* variant: the two colours taken for each other
DrawByteSwapped(byte, bit_index, color) ==
    IF color = "On"
    THEN Or8(byte, 2 ^ bit_index)
    ELSE And8(byte, Not8(2 ^ bit_index))

\* match color { Off => byte | (1 << bit_index), On => byte & !(1 << bit_index) }
DrawByte(byte, bit_index, color) ==
    IF color = "Off"
    THEN Or8(byte, 2 ^ bit_index)
    ELSE And8(byte, Not8(2 ^ bit_index))

\* enum BinaryColor
BinaryColor ==
    {"Off", "On"}

\* Coordinates of the points handed to draw_iter (i32): negative, the first
\* and last rows and columns, both sides of each limit, beyond 16 bits.
PointXs ==
    {-1, 0, 479, 480, 799, 800, 65536}

PointYs ==
    {-1, 0, 1, 9, 479, 480, 65536}

Pixels ==
    [x : PointXs, y : PointYs, color : BinaryColor]

\* Frame::default()
default ==
    /\ draw \in {"Ok", "OutOfBounds", "panic"}
    /\ buffer' = DefaultBuffer
    /\ pixels' = <<>>
    /\ draw' = "idle"
    /\ UNCHANGED <<drivervars, busvars, appvars>>

\* draw_iter(pixels) is entered
draw_iter ==
    /\ draw = "idle"
    /\ draw' = "drawing"
    /\ pixels' = <<>>
    /\ UNCHANGED <<buffer, drivervars, busvars, appvars>>

\* the loop body for a pixel that is accepted and addressed inside the buffer
draw_iter_pixel ==
    /\ draw = "drawing"
    /\ Len(pixels) < MaxPixels
    /\ \E p \in Pixels :
          /\ Accepted(p)
          /\ LET a == Address(p.x, p.y, overflow_checks)
             IN  /\ ~a.panic
                 /\ buffer' = WriteByte(buffer, a.index,
                                        DrawByte(ReadByte(buffer, a.index),
                                                 a.bit, p.color))
          /\ pixels' = Append(pixels, p)
    /\ UNCHANGED <<draw, drivervars, busvars, appvars>>

\* the loop body for a pixel that is refused: return Err(OutOfBounds)
draw_iter_out_of_bounds ==
    /\ draw = "drawing"
    /\ Len(pixels) < MaxPixels
    /\ \E p \in Pixels :
          /\ ~Accepted(p)
          /\ pixels' = Append(pixels, p)
    /\ draw' = "OutOfBounds"
    /\ UNCHANGED <<buffer, drivervars, busvars, appvars>>

\* the loop body for an accepted pixel whose address computation overflows
\* or whose index is outside the buffer
draw_iter_panic ==
    /\ draw = "drawing"
    /\ Len(pixels) < MaxPixels
    /\ \E p \in Pixels :
          /\ Accepted(p)
          /\ Address(p.x, p.y, overflow_checks).panic
          /\ pixels' = Append(pixels, p)
    /\ draw' = "panic"
    /\ UNCHANGED <<buffer, drivervars, busvars, appvars>>

\* the iterator is exhausted: Ok(())
draw_iter_return ==
    /\ draw = "drawing"
    /\ draw' = "Ok"
    /\ UNCHANGED <<buffer, pixels, drivervars, busvars, appvars>>

---------------------------------------------------------------------------
(* The shared bus (spi.rs): one mutex around the transport, and a device   *)
(* handle with its own chip-select for the display and for the SD card.    *)
(* A write of a handle is the critical section of the bus arbiter: acquire *)
(* the lock, assert chip-select, write, deassert chip-select, release.     *)

\* the two devices set_up_devices returns
Devices ==
    {"display", "sd_card"}

\* variant: a mutex of its own for each device
BusPerDevice(device) ==
    device

\* SpiDevice::new(spi_bus, ..): both devices are built on the one SPI_BUS
BusOf(device) ==
    "SPI_BUS"

Buses ==
    {BusOf(d) : d \in Devices}

\* a handle that has no write in progress
IdleHandle ==
    [pc |-> "idle", len |-> 0, sent |-> 0, failed |-> FALSE]

\* set_up_devices: the mutex is free, both chip-selects are Level::High
BusInit ==
    /\ lock = [b \in Buses |-> "free"]
    /\ chip_select = [d \in Devices |-> "high"]
    /\ handle = [d \in Devices |-> IdleHandle]
    /\ wire = <<>>

\* a task calls write(bytes) on its handle
TransactionRequest(d) ==
    /\ handle[d].pc = "idle"
    /\ \E n \in 1..MaxWrite :
          handle' = [handle EXCEPT ![d] = [pc |-> "waiting", len |-> n,
                                            sent |-> 0, failed |-> FALSE]]
    /\ UNCHANGED <<lock, chip_select, wire, drivervars, framevars, appvars>>

\* variant: the handle takes the lock without waiting for it to be free
LockAcquireUnguarded(d) ==
    /\ handle[d].pc = "waiting"
    /\ lock' = [lock EXCEPT ![BusOf(d)] = d]
    /\ handle' = [handle EXCEPT ![d].pc = "locked"]
    /\ UNCHANGED <<chip_select, wire, drivervars, framevars, appvars>>

\* the lock is free and the handle takes it
LockAcquire(d) ==
    /\ handle[d].pc = "waiting"
    /\ lock[BusOf(d)] = "free"
    /\ lock' = [lock EXCEPT ![BusOf(d)] = d]
    /\ handle' = [handle EXCEPT ![d].pc = "locked"]
    /\ UNCHANGED <<chip_select, wire, drivervars, framevars, appvars>>

\* the handle asserts its own chip-select
ChipSelectAssert(d) ==
    /\ handle[d].pc = "locked"
    /\ chip_select' = [chip_select EXCEPT ![d] = "low"]
    /\ handle' = [handle EXCEPT ![d].pc = "selected"]
    /\ wire' = IF \A e \in Devices : chip_select[e] = "high" THEN <<>> ELSE wire
    /\ UNCHANGED <<lock, drivervars, framevars, appvars>>

\* the transport moves the next byte of the write
TransportWrite(d) ==
    /\ handle[d].pc = "selected"
    /\ ~handle[d].failed
    /\ handle[d].sent < handle[d].len
    /\ handle' = [handle EXCEPT ![d].sent = @ + 1]
    /\ wire' = Append(wire, d)
    /\ UNCHANGED <<lock, chip_select, drivervars, framevars, appvars>>

\* the transport write fails
TransportWriteError(d) ==
    /\ handle[d].pc = "selected"
    /\ ~handle[d].failed
    /\ handle[d].sent < handle[d].len
    /\ handle' = [handle EXCEPT ![d].failed = TRUE]
    /\ UNCHANGED <<lock, chip_select, wire, drivervars, framevars, appvars>>

\* variant: a failed write returns before the chip-select is deasserted
ChipSelectDeassertUnlessFailed(d) ==
    /\ handle[d].pc = "selected"
    /\ handle[d].sent = handle[d].len
    /\ ~handle[d].failed
    /\ chip_select' = [chip_select EXCEPT ![d] = "high"]
    /\ handle' = [handle EXCEPT ![d].pc = "deselected"]
    /\ UNCHANGED <<lock, wire, drivervars, framevars, appvars>>

\* the write is over, with or without an error: chip-select is deasserted
ChipSelectDeassert(d) ==
    /\ handle[d].pc = "selected"
    /\ handle[d].sent = handle[d].len \/ handle[d].failed
    /\ chip_select' = [chip_select EXCEPT ![d] = "high"]
    /\ handle' = [handle EXCEPT ![d].pc = "deselected"]
    /\ UNCHANGED <<lock, wire, drivervars, framevars, appvars>>

\* the lock is released and write returns
LockRelease(d) ==
    /\ handle[d].pc = "deselected"
    /\ lock' = [lock EXCEPT ![BusOf(d)] = "free"]
    /\ handle' = [handle EXCEPT ![d] = IdleHandle]
    /\ UNCHANGED <<chip_select, wire, drivervars, framevars, appvars>>

transaction_request ==
    \E d \in Devices : TransactionRequest(d)

lock_acquire ==
    \E d \in Devices : LockAcquire(d)

chip_select_assert ==
    \E d \in Devices : ChipSelectAssert(d)

transport_write ==
    \E d \in Devices : TransportWrite(d)

transport_write_error ==
    \E d \in Devices : TransportWriteError(d)

chip_select_deassert ==
    \E d \in Devices : ChipSelectDeassert(d)

lock_release ==
    \E d \in Devices : LockRelease(d)

---------------------------------------------------------------------------
(* The call in progress *)

Call(fn, mode, frame, off, x, y, w, h) ==
    [fn |-> fn, mode |-> mode, frame |-> frame, off |-> off,
     x |-> x, y |-> y, w |-> w, h |-> h,
     on |-> is_screen_on, lut |-> is_custom_lut_active]

NoCall ==
    [fn |-> "none", mode |-> "Fast", frame |-> <<>>, off |-> FALSE,
     x |-> 0, y |-> 0, w |-> 0, h |-> 0, on |-> FALSE, lut |-> FALSE]

Ops(c) ==
    CASE c.fn = "initialize" ->
            InitializeOps(overflow_checks)
      [] c.fn = "initialize_controller" ->
            InitializeControllerOps(overflow_checks)
      [] c.fn = "set_ram_area" ->
            SetRamAreaOps(c.x, c.y, c.w, c.h, overflow_checks)
      [] c.fn = "refresh" ->
            RefreshOps(c.mode, c.off, c.on, c.lut)
      [] c.fn = "display" ->
            DisplayOps(c.mode, c.frame, c.on, c.lut, overflow_checks)
      [] c.fn = "enter_deep_sleep" ->
            EnterDeepSleepOps(c.on)
      [] c.fn = "wait_for_busy" ->
            <<OpWait>>
      [] OTHER -> <<>>

Running ==
    phase = "running" /\ pc <= Len(ops)

Cur ==
    ops[pc]

\* What a call did, as recorded in trace
Event(k, bytes, level, ms) ==
    [k |-> k, bytes |-> bytes, level |-> level, ms |-> ms]

Cmd(b) ==
    Event("cmd", <<b>>, "", 0)

Data(bytes) ==
    Event("data", bytes, "", 0)

Waited ==
    Event("wait", <<>>, "", 0)

ResetLine(level) ==
    Event("reset", <<>>, level, 0)

Delay(ms) ==
    Event("delay", <<>>, "", ms)

---------------------------------------------------------------------------
(* input.rs: the buttons behind the two analog pins *)

\* const PIN_1_RANGES: [u16; 5], const PIN_2_RANGES: [u16; 3]; element i of
\* the array is element i + 1 of the sequence
PIN_1_RANGES ==
    <<2850, 2300, 1550, 550, 0>>

PIN_2_RANGES ==
    <<2350, 850, 0>>

\* enum Pin
Pin ==
    {"One", "Two"}

\* variant: as many buttons as the table has thresholds
NumberOfButtonsTableLength(pin) ==
    IF pin = "One" THEN 5 ELSE 3

\* let number_of_buttons: u8 = match pin { Pin::One => 4, Pin::Two => 2 }
NumberOfButtons(pin) ==
    IF pin = "One" THEN 4 ELSE 2

\* for button_number in button_number..number_of_buttons { .. } None
\* ranges[i] outside the slice panics
RECURSIVE ButtonLoop(_, _, _, _)
ButtonLoop(button_number, number_of_buttons, pin_value, ranges) ==
    IF button_number >= number_of_buttons
    THEN <<"None">>
    ELSE IF button_number + 1 >= Len(ranges)
    THEN <<"panic">>
    ELSE LET start == ranges[(button_number + 1) + 1]
             end   == ranges[button_number + 1]
         IN  IF start < pin_value /\ pin_value <= end
             THEN <<"Some", button_number>>
             ELSE ButtonLoop(button_number + 1, number_of_buttons, pin_value, ranges)

get_active_button(pin_value, ranges, pin) ==
    ButtonLoop(0, NumberOfButtons(pin), pin_value, ranges)

\* Readings of the converter (u16): nothing, the lowest, the recorded
\* values, both sides of every threshold of the two tables, the highest.
Readings ==
    {0, 1, 4, 550, 551, 850, 851, 1117, 1550, 1551, 1670, 2013, 2300, 2301,
     2350, 2351, 2629, 2850, 2851, 3087, 65535}

\* run() has not started; nothing has been read
AppInit ==
    /\ task = "run"
    /\ values = <<0, 0>>
    /\ buttons = <<(<<"None">>), (<<"None">>)>>

---------------------------------------------------------------------------
(* Initial state: the program has not yet constructed a driver *)

Init ==
    /\ is_screen_on = FALSE
    /\ is_custom_lut_active = FALSE
    /\ data_command = "high"
    /\ reset = "low"
    /\ busy \in BOOLEAN
    /\ overflow_checks \in BOOLEAN
    /\ driver = FALSE
    /\ call = NoCall
    /\ ops = <<>>
    /\ pc = 1
    /\ phase = "idle"
    /\ result = <<>>
    /\ trace = <<>>
    /\ waited = 0
    /\ asleep = FALSE
    /\ low_seen = FALSE
    /\ buffer = DefaultBuffer
    /\ pixels = <<>>
    /\ draw = "idle"
    /\ BusInit
    /\ AppInit

\* Initial states for the methods taken one at a time: a constructed driver
\* whose fields hold any value of their type.
InitUnit ==
    /\ is_screen_on \in BOOLEAN
    /\ is_custom_lut_active \in BOOLEAN
    /\ data_command = "high"
    /\ reset = "high"
    /\ busy \in BOOLEAN
    /\ overflow_checks \in BOOLEAN
    /\ driver = TRUE
    /\ call = NoCall
    /\ ops = <<>>
    /\ pc = 1
    /\ phase = "idle"
    /\ result = <<>>
    /\ trace = <<>>
    /\ waited = 0
    /\ asleep = FALSE
    /\ low_seen = FALSE
    /\ buffer = DefaultBuffer
    /\ pixels = <<>>
    /\ draw = "idle"
    /\ BusInit
    /\ AppInit

---------------------------------------------------------------------------
(* Entering a method *)

Enter(c) ==
    /\ phase = "idle"
    /\ call' = c
    /\ ops' = Ops(c)
    /\ pc' = 1
    /\ phase' = "running"
    /\ result' = <<>>
    /\ trace' = <<>>
    /\ waited' = 0
    /\ low_seen' = ~busy
    /\ UNCHANGED <<is_screen_on, is_custom_lut_active, data_command, reset,
                   busy, overflow_checks, asleep>>
    /\ UNCHANGED <<framevars, busvars>>

\* EinkDisplay::initialize(..): run() calls it once after every power-on
initialize ==
    /\ Enter(Call("initialize", "Fast", <<>>, FALSE, 0, 0, 0, 0))
    /\ driver' = FALSE
    /\ UNCHANGED appvars

\* display(refresh_mode, frame_buffer)
display ==
    /\ driver
    /\ \E mode \in RefreshMode, frame \in Frames :
          Enter(Call("display", mode, frame, FALSE, 0, 0, 0, 0))
    /\ UNCHANGED <<driver, appvars>>

\* enter_deep_sleep()
enter_deep_sleep ==
    /\ driver
    /\ Enter(Call("enter_deep_sleep", "Fast", <<>>, FALSE, 0, 0, 0, 0))
    /\ UNCHANGED <<driver, appvars>>

\* refresh(mode, turn_screen_off)
refresh ==
    /\ driver
    /\ \E mode \in RefreshMode, off \in BOOLEAN :
          Enter(Call("refresh", mode, <<>>, off, 0, 0, 0, 0))
    /\ UNCHANGED <<driver, appvars>>

\* set_ram_area(x, y, width, height)
set_ram_area ==
    /\ driver
    /\ \E win \in Windows :
          Enter(Call("set_ram_area", "Fast", <<>>, FALSE,
                     win.x, win.y, win.w, win.h))
    /\ UNCHANGED <<driver, appvars>>

\* initialize_controller()
initialize_controller ==
    /\ driver
    /\ Enter(Call("initialize_controller", "Fast", <<>>, FALSE, 0, 0, 0, 0))
    /\ UNCHANGED <<driver, appvars>>

\* wait_for_busy() called on its own
call_wait_for_busy ==
    /\ driver
    /\ Enter(Call("wait_for_busy", "Fast", <<>>, FALSE, 0, 0, 0, 0))
    /\ UNCHANGED <<driver, appvars>>

---------------------------------------------------------------------------
(* Executing the steps of the method in progress *)

\* a step completed: go on with the next one
Advance(event) ==
    /\ trace' = Append(trace, event)
    /\ pc' = pc + 1
    /\ UNCHANGED <<phase, result>>

\* variant: the error is dropped and the method goes on with the next step
FailSkipped(kind) ==
    /\ pc' = pc + 1
    /\ UNCHANGED <<phase, result, trace>>

\* `?` on an Err: the method returns path \o <<kind>> at once
Fail(kind) ==
    /\ phase' = "done"
    /\ result' = Cur.path \o <<kind>>
    /\ UNCHANGED <<pc, trace>>

\* the controller drives the busy line as it likes
BusyMoves ==
    /\ busy' \in BOOLEAN
    /\ low_seen' = (low_seen \/ ~busy')

\* send_command: data_command low, then one byte written; the write succeeds
send_command ==
    /\ Running /\ Cur.op = "cmd"
    /\ data_command' = "low"
    /\ Advance(Cmd(Cur.bytes[1]))
    /\ BusyMoves
    /\ UNCHANGED <<is_screen_on, is_custom_lut_active, reset, overflow_checks,
                   driver, call, ops, waited, asleep>>
    /\ UNCHANGED <<framevars, busvars, appvars>>

\* send_command: the write fails (SendCommandError)
send_command_error ==
    /\ Running /\ Cur.op = "cmd"
    /\ data_command' = "low"
    /\ Fail("SendCommand")
    /\ UNCHANGED <<is_screen_on, is_custom_lut_active, reset, busy,
                   overflow_checks, driver, call, ops, waited, asleep, low_seen>>
    /\ UNCHANGED <<framevars, busvars, appvars>>

\* send_data: data_command high, then the bytes written; the write succeeds
send_data ==
    /\ Running /\ Cur.op = "data"
    /\ data_command' = "high"
    /\ Advance(Data(Cur.bytes))
    /\ BusyMoves
    /\ UNCHANGED <<is_screen_on, is_custom_lut_active, reset, overflow_checks,
                   driver, call, ops, waited, asleep>>
    /\ UNCHANGED <<framevars, busvars, appvars>>

\* send_data: the write fails (SendDataError)
send_data_error ==
    /\ Running /\ Cur.op = "data"
    /\ data_command' = "high"
    /\ Fail("SendData")
    /\ UNCHANGED <<is_screen_on, is_custom_lut_active, reset, busy,
                   overflow_checks, driver, call, ops, waited, asleep, low_seen>>
    /\ UNCHANGED <<framevars, busvars, appvars>>

\* variant: the wait is for the other level of the line
wait_for_busy_high ==
    /\ Running /\ Cur.op = "wait"
    /\ busy
    /\ Advance(Waited)
    /\ waited' = 0
    /\ UNCHANGED <<is_screen_on, is_custom_lut_active, data_command, reset,
                   busy, overflow_checks, driver, call, ops, asleep, low_seen>>
    /\ UNCHANGED <<framevars, busvars, appvars>>

\* wait_for_busy: busy.wait_for_low() completes, the busy line is low
wait_for_busy ==
    /\ Running /\ Cur.op = "wait"
    /\ ~busy
    /\ Advance(Waited)
    /\ waited' = 0
    /\ UNCHANGED <<is_screen_on, is_custom_lut_active, data_command, reset,
                   busy, overflow_checks, driver, call, ops, asleep, low_seen>>
    /\ UNCHANGED <<framevars, busvars, appvars>>

\* wait_for_busy: the line is high and time passes
wait_for_busy_tick ==
    /\ Running /\ Cur.op = "wait"
    /\ busy
    /\ waited < TimeoutTicks
    /\ waited' = waited + 1
    /\ BusyMoves
    /\ UNCHANGED <<is_screen_on, is_custom_lut_active, data_command, reset,
                   overflow_checks, driver, call, ops, pc, phase, result, trace,
                   asleep>>
    /\ UNCHANGED <<framevars, busvars, appvars>>

\* variant: the timeout is dropped and the method goes on
wait_for_busy_timeout_ignored ==
    /\ Running /\ Cur.op = "wait"
    /\ busy
    /\ waited = TimeoutTicks
    /\ Advance(Waited)
    /\ waited' = 0
    /\ UNCHANGED <<is_screen_on, is_custom_lut_active, data_command, reset,
                   busy, overflow_checks, driver, call, ops, asleep, low_seen>>
    /\ UNCHANGED <<framevars, busvars, appvars>>

\* wait_for_busy: with_timeout expires with the line still high
wait_for_busy_timeout ==
    /\ Running /\ Cur.op = "wait"
    /\ busy
    /\ waited = TimeoutTicks
    /\ phase' = "done"
    /\ result' = Cur.path \o <<"WaitForBusy">>
    /\ trace' = Append(trace, Waited)
    /\ waited' = 0
    /\ UNCHANGED <<is_screen_on, is_custom_lut_active, data_command, reset,
                   busy, overflow_checks, driver, call, ops, pc, asleep, low_seen>>
    /\ UNCHANGED <<framevars, busvars, appvars>>

\* self.is_screen_on = true / false
set_is_screen_on ==
    /\ Running /\ Cur.op = "screen"
    /\ is_screen_on' = Cur.flag
    /\ pc' = pc + 1
    /\ UNCHANGED <<is_custom_lut_active, data_command, reset, busy,
                   overflow_checks, driver, call, ops, phase, result, trace,
                   waited, asleep, low_seen>>
    /\ UNCHANGED <<framevars, busvars, appvars>>

\* self.data_command.set_high() in display
set_data_command ==
    /\ Running /\ Cur.op = "dc"
    /\ data_command' = Cur.level
    /\ pc' = pc + 1
    /\ UNCHANGED <<is_screen_on, is_custom_lut_active, reset, busy,
                   overflow_checks, driver, call, ops, phase, result, trace,
                   waited, asleep, low_seen>>
    /\ UNCHANGED <<framevars, busvars, appvars>>

\* Self::new: the pins are configured and the fields initialised
new ==
    /\ Running /\ Cur.op = "new"
    /\ reset' = "low"
    /\ data_command' = "high"
    /\ is_screen_on' = FALSE
    /\ is_custom_lut_active' = FALSE
    /\ pc' = pc + 1
    /\ UNCHANGED <<busy, overflow_checks, driver, call, ops, phase, result, trace,
                   waited, asleep, low_seen>>
    /\ UNCHANGED <<framevars, busvars, appvars>>

\* Self::new fails (CreateError)
new_error ==
    /\ Running /\ Cur.op = "new"
    /\ Fail("Create")
    /\ UNCHANGED <<is_screen_on, is_custom_lut_active, data_command, reset,
                   busy, overflow_checks, driver, call, ops, waited, asleep,
                   low_seen>>
    /\ UNCHANGED <<framevars, busvars, appvars>>

\* reset: self.reset.set_high() / set_low(); releasing the line after it was
\* low is what takes the controller out of deep sleep
set_reset ==
    /\ Running /\ Cur.op = "reset"
    /\ reset' = Cur.level
    /\ asleep' = IF reset = "low" /\ Cur.level = "high" THEN FALSE ELSE asleep
    /\ Advance(ResetLine(Cur.level))
    /\ BusyMoves
    /\ UNCHANGED <<is_screen_on, is_custom_lut_active, data_command,
                   overflow_checks, driver, call, ops, waited>>
    /\ UNCHANGED <<framevars, busvars, appvars>>

\* reset: Timer::after_millis(ms).await
delay ==
    /\ Running /\ Cur.op = "delay"
    /\ Advance(Delay(Cur.ms))
    /\ UNCHANGED <<is_screen_on, is_custom_lut_active, data_command, reset,
                   busy, overflow_checks, driver, call, ops, waited, asleep,
                   low_seen>>
    /\ UNCHANGED <<framevars, busvars, appvars>>

\* an overflowing u16 operation in a build with overflow checks
panic ==
    /\ Running /\ Cur.op = "panic"
    /\ phase' = "done"
    /\ result' = <<"panic">>
    /\ driver' = FALSE
    /\ UNCHANGED <<is_screen_on, is_custom_lut_active, data_command, reset,
                   busy, overflow_checks, call, ops, pc, trace, waited, asleep,
                   low_seen>>
    /\ UNCHANGED <<framevars, busvars, appvars>>

\* Ok(()) / Ok(this)
return ==
    /\ phase = "running"
    /\ pc = Len(ops) + 1
    /\ phase' = "done"
    /\ result' = <<"Ok">>
    /\ driver' = IF call.fn = "initialize" THEN TRUE ELSE driver
    /\ asleep' = IF call.fn = "enter_deep_sleep" THEN TRUE ELSE asleep
    /\ UNCHANGED <<is_screen_on, is_custom_lut_active, data_command, reset,
                   busy, overflow_checks, call, ops, pc, trace, waited, low_seen>>
    /\ UNCHANGED <<framevars, busvars, appvars>>

\* the caller has the result and goes on: the call is over
Resumed ==
    /\ phase = "done"
    /\ phase' = "idle"
    /\ call' = NoCall
    /\ ops' = <<>>
    /\ pc' = 1
    /\ result' = <<>>
    /\ trace' = <<>>
    /\ low_seen' = FALSE
    /\ UNCHANGED <<is_screen_on, is_custom_lut_active, data_command, reset,
                   busy, overflow_checks, driver, waited, asleep>>
    /\ UNCHANGED <<framevars, busvars>>

\* a caller that is not the application
resume ==
    /\ Resumed
    /\ UNCHANGED appvars

StepOfCall ==
    \/ send_command
    \/ send_command_error
    \/ send_data
    \/ send_data_error
    \/ wait_for_busy
    \/ wait_for_busy_tick
    \/ wait_for_busy_timeout
    \/ set_is_screen_on
    \/ set_data_command
    \/ new
    \/ new_error
    \/ set_reset
    \/ delay
    \/ return
    \/ resume

---------------------------------------------------------------------------
(* main.rs: run() and the power-button task *)

\* [0x00; BUFFER_SIZE]
BlankFrame ==
    [i \in 1..FrameLen |-> 0]

\* frame[0..BUFFER_SIZE / 2].fill(0x33) on [0x00; BUFFER_SIZE]
StartFrame ==
    [i \in 1..FrameLen |-> IF 2 * i <= FrameLen THEN 51 ELSE 0]

\* the positions of handle_power_button and of the loop of run()
Spawned ==
    {"wait_for_low", "display", "displayed", "enter_deep_sleep", "timer"}

\* run: EinkDisplay::initialize(display_spi, reset, data_command, busy)
run_initialize ==
    /\ task = "run"
    /\ Enter(Call("initialize", "Fast", <<>>, FALSE, 0, 0, 0, 0))
    /\ driver' = FALSE
    /\ task' = "initialize"
    /\ UNCHANGED <<values, buttons>>

\* run: .await.map_err(ApplicationError::SetUpEinkDisplay)?
run_initialize_return ==
    /\ task = "initialize"
    /\ Resumed
    /\ task' = IF result = <<"Ok">> THEN "initialized" ELSE "failed"
    /\ UNCHANGED <<values, buttons>>

\* run: display.display(RefreshMode::Full, &frame)
run_display ==
    /\ task = "initialized"
    /\ Enter(Call("display", "Full", StartFrame, FALSE, 0, 0, 0, 0))
    /\ task' = "first_display"
    /\ UNCHANGED <<driver, values, buttons>>

\* run: .await.map_err(ApplicationError::Display)?
run_display_return ==
    /\ task = "first_display"
    /\ Resumed
    /\ task' = IF result = <<"Ok">> THEN "spawn" ELSE "failed"
    /\ UNCHANGED <<values, buttons>>

\* run: spawner.spawn(handle_power_button(.., display))?
spawn ==
    /\ task = "spawn"
    /\ task' \in {"wait_for_low", "failed"}
    /\ UNCHANGED <<drivervars, framevars, busvars, values, buttons>>

\* handle_power_button: wait_for_low() returns, then
\* eink_display.display(RefreshMode::Full, &[0x00; BUFFER_SIZE])
power_button_pressed ==
    /\ task = "wait_for_low"
    /\ Enter(Call("display", "Full", BlankFrame, FALSE, 0, 0, 0, 0))
    /\ task' = "display"
    /\ UNCHANGED <<driver, values, buttons>>

\* variant: the error of display is logged and the task goes on
power_button_display_return_error_ignored ==
    /\ task = "display"
    /\ Resumed
    /\ task' = "displayed"
    /\ UNCHANGED <<values, buttons>>

\* handle_power_button: if let Err(error) = .. { error!(..); continue; }
power_button_display_return ==
    /\ task = "display"
    /\ Resumed
    /\ task' = IF result = <<"Ok">> THEN "displayed" ELSE "wait_for_low"
    /\ UNCHANGED <<values, buttons>>

\* handle_power_button: eink_display.enter_deep_sleep()
power_button_enter_deep_sleep ==
    /\ task = "displayed"
    /\ Enter(Call("enter_deep_sleep", "Fast", <<>>, FALSE, 0, 0, 0, 0))
    /\ task' = "enter_deep_sleep"
    /\ UNCHANGED <<driver, values, buttons>>

\* handle_power_button: let Err(error) = .. else { break; }; error!(..);
power_button_enter_deep_sleep_return ==
    /\ task = "enter_deep_sleep"
    /\ Resumed
    /\ task' = IF result = <<"Ok">> THEN "timer" ELSE "wait_for_low"
    /\ UNCHANGED <<values, buttons>>

\* handle_power_button: Timer::after_secs(5), then
\* real_time_control.sleep_deep(&[&rtcio])
sleep_deep ==
    /\ task = "timer"
    /\ task' = "sleep_deep"
    /\ UNCHANGED <<drivervars, framevars, busvars, values, buttons>>

\* Analog::poll in the loop of run(): read_values, then get_active_button
\* for pin one and for pin two
poll ==
    /\ task \in Spawned
    /\ \E value_1 \in Readings, value_2 \in Readings :
          /\ values' = <<value_1, value_2>>
          /\ buttons' = <<get_active_button(value_1, PIN_1_RANGES, "One"),
                          get_active_button(value_2, PIN_2_RANGES, "Two")>>
    /\ UNCHANGED <<drivervars, framevars, busvars, task>>

\* run() up to the spawn, then the power-button task
NextPower ==
    \/ run_initialize
    \/ run_initialize_return
    \/ run_display
    \/ run_display_return
    \/ spawn
    \/ power_button_pressed
    \/ power_button_display_return
    \/ power_button_enter_deep_sleep
    \/ power_button_enter_deep_sleep_return
    \/ sleep_deep
    \/ send_command
    \/ send_command_error
    \/ send_data
    \/ send_data_error
    \/ wait_for_busy
    \/ wait_for_busy_tick
    \/ wait_for_busy_timeout
    \/ set_is_screen_on
    \/ new
    \/ new_error
    \/ set_reset
    \/ delay
    \/ return

SpecPower ==
    Init /\ [][NextPower]_vars

\* The polling loop of run() on its own, from the spawn on
InitInput ==
    /\ is_screen_on = TRUE
    /\ is_custom_lut_active = FALSE
    /\ data_command = "low"
    /\ reset = "high"
    /\ busy \in BOOLEAN
    /\ overflow_checks \in BOOLEAN
    /\ driver = TRUE
    /\ call = NoCall
    /\ ops = <<>>
    /\ pc = 1
    /\ phase = "idle"
    /\ result = <<>>
    /\ trace = <<>>
    /\ waited = 0
    /\ asleep = FALSE
    /\ low_seen = FALSE
    /\ buffer = DefaultBuffer
    /\ pixels = <<>>
    /\ draw = "idle"
    /\ BusInit
    /\ task = "wait_for_low"
    /\ values = <<0, 0>>
    /\ buttons = <<(<<"None">>), (<<"None">>)>>

NextInput ==
    poll

SpecInput ==
    InitInput /\ [][NextInput]_vars

\* The program: initialize, then the public methods in any order
Next ==
    \/ initialize
    \/ display
    \/ enter_deep_sleep
    \/ StepOfCall

Spec ==
    Init /\ [][Next]_vars

\* Every method, the private ones included, from any value of the fields
NextUnit ==
    \/ Next
    \/ refresh
    \/ set_ram_area
    \/ initialize_controller
    \/ call_wait_for_busy
    \/ panic

SpecUnit ==
    InitUnit /\ [][NextUnit]_vars

\* The frame buffer on its own: frames are created and drawn into
InitFrame ==
    /\ Init
    /\ ~busy

NextFrame ==
    \/ default
    \/ draw_iter
    \/ draw_iter_pixel
    \/ draw_iter_out_of_bounds
    \/ draw_iter_panic
    \/ draw_iter_return

SpecFrame ==
    InitFrame /\ [][NextFrame]_vars

\* The shared bus on its own: the display task and the SD card task write
\* through their handles whenever they like
InitBus ==
    /\ Init
    /\ ~busy
    /\ ~overflow_checks

NextBus ==
    \/ transaction_request
    \/ lock_acquire
    \/ chip_select_assert
    \/ transport_write
    \/ transport_write_error
    \/ chip_select_deassert
    \/ lock_release

\* a step of the write of handle d that its task takes once it can
Serve(d) ==
    \/ LockAcquire(d)
    \/ ChipSelectAssert(d)
    \/ TransportWrite(d)
    \/ ChipSelectDeassert(d)
    \/ LockRelease(d)

\* The scheduler is weakly fair: a task that can go on with its write, and
\* stays able to, eventually does.  When a task asks for a write and whether
\* the transport fails is not up to the scheduler.
SpecBus ==
    /\ InitBus
    /\ [][NextBus]_vars
    /\ \A d \in Devices : WF_vars(Serve(d))

---------------------------------------------------------------------------
(* The driver on the shared bus: run hands the display handle of           *)
(* set_up_devices to the driver (main.rs 160-174), so every send_command   *)
(* and send_data is one write of that handle, while the task of the SD     *)
(* card writes through the other handle whenever it likes.                 *)

\* variant: the line is left in data mode for every write
WriteLevelAlwaysHigh ==
    "high"

\* self.data_command.set_low() in send_command, set_high() in send_data
WriteLevel ==
    IF Cur.op = "cmd" THEN "low" ELSE "high"

\* send_command / send_data: the line is set, then write is called on the
\* display handle
device_write ==
    /\ Running /\ Cur.op \in {"cmd", "data"}
    /\ handle["display"].pc = "idle"
    /\ data_command' = WriteLevel
    /\ handle' = [handle EXCEPT !["display"] =
                     [pc |-> "waiting", len |-> Len(Cur.bytes),
                      sent |-> 0, failed |-> FALSE]]
    /\ UNCHANGED <<is_screen_on, is_custom_lut_active, reset, busy,
                   overflow_checks, driver, call, ops, pc, phase, result, trace,
                   waited, asleep, low_seen>>
    /\ UNCHANGED <<lock, chip_select, wire, framevars, appvars>>

\* variant: the write returns to the driver with the lock still held
device_write_return_lock_kept ==
    /\ Running /\ Cur.op \in {"cmd", "data"}
    /\ handle["display"].pc = "deselected"
    /\ ~handle["display"].failed
    /\ Advance(IF Cur.op = "cmd" THEN Cmd(Cur.bytes[1]) ELSE Data(Cur.bytes))
    /\ BusyMoves
    /\ UNCHANGED <<is_screen_on, is_custom_lut_active, data_command, reset,
                   overflow_checks, driver, call, ops, waited, asleep>>
    /\ UNCHANGED <<lock, handle, chip_select, wire, framevars, appvars>>

\* the write of the display handle returns Ok: the lock is released and the
\* driver goes on with its next step
device_write_return ==
    /\ Running /\ Cur.op \in {"cmd", "data"}
    /\ handle["display"].pc = "deselected"
    /\ ~handle["display"].failed
    /\ lock' = [lock EXCEPT ![BusOf("display")] = "free"]
    /\ handle' = [handle EXCEPT !["display"] = IdleHandle]
    /\ Advance(IF Cur.op = "cmd" THEN Cmd(Cur.bytes[1]) ELSE Data(Cur.bytes))
    /\ BusyMoves
    /\ UNCHANGED <<is_screen_on, is_custom_lut_active, data_command, reset,
                   overflow_checks, driver, call, ops, waited, asleep>>
    /\ UNCHANGED <<chip_select, wire, framevars, appvars>>

\* the write of the display handle returns an error: the lock is released
\* and the method returns SendCommandError / SendDataError
device_write_error ==
    /\ Running /\ Cur.op \in {"cmd", "data"}
    /\ handle["display"].pc = "deselected"
    /\ handle["display"].failed
    /\ lock' = [lock EXCEPT ![BusOf("display")] = "free"]
    /\ handle' = [handle EXCEPT !["display"] = IdleHandle]
    /\ Fail(IF Cur.op = "cmd" THEN "SendCommand" ELSE "SendData")
    /\ UNCHANGED <<is_screen_on, is_custom_lut_active, data_command, reset,
                   busy, overflow_checks, driver, call, ops, waited, asleep,
                   low_seen>>
    /\ UNCHANGED <<chip_select, wire, framevars, appvars>>

\* the task of the SD card asks for a write, and its write returns
sd_card_write ==
    TransactionRequest("sd_card")

sd_card_write_return ==
    LockRelease("sd_card")

\* the overflow checks of the build play no part: the only window is the
\* full panel
InitShared ==
    /\ Init
    /\ ~overflow_checks

NextShared ==
    \/ initialize
    \/ display
    \/ enter_deep_sleep
    \/ device_write
    \/ device_write_return
    \/ device_write_error
    \/ wait_for_busy
    \/ wait_for_busy_tick
    \/ wait_for_busy_timeout
    \/ set_is_screen_on
    \/ set_data_command
    \/ new
    \/ new_error
    \/ set_reset
    \/ delay
    \/ return
    \/ resume
    \/ sd_card_write
    \/ lock_acquire
    \/ chip_select_assert
    \/ transport_write
    \/ transport_write_error
    \/ chip_select_deassert
    \/ sd_card_write_return

SpecShared ==
    InitShared /\ [][NextShared]_vars

---------------------------------------------------------------------------
(* What the claims are stated in: the bytes and waits a call put on the    *)
(* bus, one token per byte, in order.                                      *)

RECURSIVE Flat(_)
Flat(tr) ==
    IF tr = <<>> THEN <<>>
    ELSE LET e == Head(tr)
             toks ==
                 CASE e.k = "cmd"  -> [i \in 1..Len(e.bytes) |-> <<"c", e.bytes[i]>>]
                   [] e.k = "data" -> [i \in 1..Len(e.bytes) |-> <<"d", e.bytes[i]>>]
                   [] e.k = "wait" -> <<(<<"w", 0>>)>>
                   [] OTHER        -> <<>>
         IN  toks \o Flat(Tail(tr))

\* a command byte, data bytes, a wait-for-idle
C(b) ==
    <<(<<"c", b>>)>>

D(bytes) ==
    [i \in 1..Len(bytes) |-> <<"d", bytes[i]>>]

W ==
    <<(<<"w", 0>>)>>

\* token a is somewhere directly followed by token b
HasPair(t, a, b) ==
    \E i \in 1..(Len(t) - 1) : t[i] = a /\ t[i + 1] = b

\* whatever follows token a is token b
AllAfter(t, a, b) ==
    \A i \in 1..(Len(t) - 1) : t[i] = a => t[i + 1] = b

IsPrefix(p, t) ==
    Len(p) <= Len(t) /\ SubSeq(t, 1, Len(p)) = p

Finished(fn) ==
    phase = "done" /\ call.fn = fn

Succeeded(fn) ==
    Finished(fn) /\ result = <<"Ok">>

lo(v) ==
    v % 256

hi(v) ==
    v \div 256

\* bitwise OR of two bytes, bit by bit
OrBits(a, b) ==
    LET bit(n, i) == (n \div (2 ^ i)) % 2
        or(i) == IF bit(a, i) = 1 \/ bit(b, i) = 1 THEN 2 ^ i ELSE 0
    IN  or(0) + or(1) + or(2) + or(3) + or(4) + or(5) + or(6) + or(7)

\* the set_ram_area sequence of the wire protocol for a window
ExpectedRamArea(x, y, width, height) ==
    LET yr == DISPLAY_HEIGHT - y - height
    IN  C(17) \o D(<<1>>)
        \o C(68) \o D(<<lo(x), hi(x), lo(x + width - 1), hi(x + width - 1)>>)
        \o C(69) \o D(<<lo(yr + height - 1), hi(yr + height - 1), lo(yr), hi(yr)>>)
        \o C(78) \o D(<<lo(x), hi(x)>>)
        \o C(79) \o D(<<lo(yr + height - 1), hi(yr + height - 1)>>)

\* the flag byte of refresh
ExpectedFlags(mode, on, lut, off) ==
    LET pattern == CASE mode = "Fast" /\ lut  -> 12
                     [] mode = "Fast" /\ ~lut -> 28
                     [] mode = "Full"         -> 52
                     [] mode = "HalfRefresh"  -> 212
    IN  OrBits(OrBits(IF on THEN 0 ELSE 192, IF off THEN 3 ELSE 0), pattern)

\* the refresh sequence
ExpectedRefresh(mode, on, lut, off) ==
    C(33) \o D(<<(IF mode = "Fast" THEN 0 ELSE 64), 0>>)
    \o (IF mode = "HalfRefresh" THEN C(26) \o D(<<90>>) ELSE <<>>)
    \o C(34) \o D(<<ExpectedFlags(mode, on, lut, off)>>)
    \o C(32) \o W

---------------------------------------------------------------------------
(* C1: a display call entered with is_screen_on = false performs a         *)
(* HalfRefresh whatever mode was requested: the comparison byte after 0x21 *)
(* is 0x40 and the byte after 0x22 is 0xD4 wherever they have been sent,   *)
(* and a successful call has written both RAM planes and sent the          *)
(* write-temperature pair (0x1A, 0x5A).                                    *)
C1_ColdDisplayIsHalfRefresh ==
    (call.fn = "display" /\ ~call.on) =>
        LET t == Flat(trace)
        IN  /\ AllAfter(t, <<"c", 33>>, <<"d", 64>>)
            /\ AllAfter(t, <<"c", 34>>, <<"d", 212>>)
            /\ AllAfter(t, <<"c", 26>>, <<"d", 90>>)
            /\ Succeeded("display") =>
                  /\ HasPair(t, <<"c", 36>>, <<"d", call.frame[1]>>)
                  /\ HasPair(t, <<"c", 38>>, <<"d", call.frame[1]>>)
                  /\ HasPair(t, <<"c", 33>>, <<"d", 64>>)
                  /\ HasPair(t, <<"c", 26>>, <<"d", 90>>)
                  /\ HasPair(t, <<"c", 34>>, <<"d", 212>>)

C1_Witness ==
    /\ Succeeded("display")
    /\ ~call.on
    /\ call.mode = "Fast"
    /\ HasPair(Flat(trace), <<"c", 34>>, <<"d", 212>>)

(* C2: a successful display call emits the full-panel set_ram_area         *)
(* sequence, then 0x24 and the frame, then 0x26 and the same frame exactly *)
(* when the effective mode is Full or HalfRefresh, then the refresh        *)
(* sequence with turn_screen_off = false.                                  *)
C2_DisplaySequence ==
    Succeeded("display") =>
        LET m == IF call.on THEN call.mode ELSE "HalfRefresh"
        IN  Flat(trace) =
                ExpectedRamArea(0, 0, DISPLAY_WIDTH, DISPLAY_HEIGHT)
                \o C(36) \o D(call.frame)
                \o (IF m \in {"Full", "HalfRefresh"}
                    THEN C(38) \o D(call.frame)
                    ELSE <<>>)
                \o ExpectedRefresh(m, call.on, call.lut, FALSE)

C2_Witness ==
    /\ Succeeded("display")
    /\ call.on
    /\ call.mode = "Fast"
    /\ ~HasPair(Flat(trace), <<"c", 38>>, <<"d", call.frame[1]>>)

(* C3: the byte refresh sends after 0x22 is (0xC0 if the screen was off)   *)
(* OR (0x03 if turn_screen_off) OR the mode pattern (0x0C Fast with custom *)
(* LUT, 0x1C Fast without, 0x34 Full, 0xD4 HalfRefresh), for every         *)
(* combination of mode, is_screen_on, is_custom_lut_active and             *)
(* turn_screen_off.                                                        *)
C3_RefreshFlagByte ==
    call.fn = "refresh" =>
        LET t == Flat(trace)
        IN  /\ AllAfter(t, <<"c", 34>>,
                        <<"d", ExpectedFlags(call.mode, call.on, call.lut, call.off)>>)
            /\ Succeeded("refresh") => \E i \in 1..Len(t) : t[i] = <<"c", 34>>

C3_Witness ==
    /\ Succeeded("refresh")
    /\ call.mode = "Fast" /\ ~call.on /\ call.lut /\ call.off
    /\ HasPair(Flat(trace), <<"c", 34>>, <<"d", 207>>)

(* C4: after a successful refresh(mode, turn_screen_off) is_screen_on is   *)
(* NOT turn_screen_off whatever it was before, and after a successful      *)
(* display is_screen_on is true.                                           *)
C4_ScreenStateAfterRefresh ==
    /\ Succeeded("refresh") => (is_screen_on = ~call.off)
    /\ Succeeded("display") => is_screen_on

C4_Witness ==
    /\ Succeeded("refresh")
    /\ ~call.on /\ call.off
    /\ ~is_screen_on

(* C5: a successful refresh emits exactly: 0x21 and its data (the          *)
(* comparison byte, 0x00 for Fast and 0x40 for Full and HalfRefresh,       *)
(* followed by 0x00), for HalfRefresh only 0x1A 0x5A, then 0x22 and the    *)
(* flag byte, then 0x20, then one wait-for-idle, and nothing after it.     *)
C5_RefreshSequence ==
    Succeeded("refresh") =>
        /\ Flat(trace) = ExpectedRefresh(call.mode, call.on, call.lut, call.off)
        /\ Len(SelectSeq(trace, LAMBDA e : e.k = "wait")) = 1
        /\ trace[1] = Cmd(33)
        /\ trace[2].k = "data" /\ trace[2].bytes[1] = (IF call.mode = "Fast" THEN 0 ELSE 64)
        /\ trace[Len(trace)] = Waited

C5_Witness ==
    /\ Succeeded("refresh")
    /\ call.mode = "HalfRefresh"
    /\ Len(trace) = 8

(* C6: enter_deep_sleep entered with is_screen_on = true and no failure    *)
(* emits exactly 0x21 0x40, 0x22 0x03, one wait-for-idle, 0x10 0x01 and    *)
(* leaves is_screen_on = false; entered with is_screen_on = false it emits *)
(* only 0x10 0x01 and leaves is_screen_on = false.                         *)
C6_DeepSleepSequence ==
    Succeeded("enter_deep_sleep") =>
        /\ ~is_screen_on
        /\ call.on =>
              Flat(trace) = C(33) \o D(<<64>>) \o C(34) \o D(<<3>>) \o W
                            \o C(16) \o D(<<1>>)
        /\ ~call.on => Flat(trace) = C(16) \o D(<<1>>)

C6_Witness ==
    /\ Succeeded("enter_deep_sleep")
    /\ call.on
    /\ Len(trace) = 7

(* C7: asleep is terminal: after enter_deep_sleep has returned             *)
(* successfully no command or data transaction is put on the bus until a   *)
(* hardware reset has been performed.                                      *)
C7_AsleepIsTerminal ==
    [][asleep =>
          ~(/\ Len(trace') = Len(trace) + 1
            /\ trace'[Len(trace')].k \in {"cmd", "data"})]_vars

(* C8: for a window with width >= 1, height >= 1 inside the panel,         *)
(* set_ram_area emits exactly 0x11 0x01; 0x44 lo(x) hi(x) lo(x+width-1)    *)
(* hi(x+width-1); 0x45 lo(y'+height-1) hi(y'+height-1) lo(y') hi(y');      *)
(* 0x4E lo(x) hi(x); 0x4F lo(y'+height-1) hi(y'+height-1), with            *)
(* y' = H - y - height.                                                    *)
C8_SetRamAreaBytes ==
    (Succeeded("set_ram_area") /\ call.w >= 1 /\ call.h >= 1) =>
        Flat(trace) = ExpectedRamArea(call.x, call.y, call.w, call.h)

C8_Witness ==
    /\ Succeeded("set_ram_area")
    /\ call.x = 544 /\ call.w = 256 /\ call.y = 224 /\ call.h = 1
    /\ Flat(trace)[6] = <<"d", 31>>
    /\ Flat(trace)[9] = <<"d", 255>>

(* C9: a successful initialize_controller emits exactly: 0x12, wait,       *)
(* 0x18 0x80, 0x0C AE C7 C3 C0 C0 40, 0x01 lo(H-1) hi(H-1) 0x02,           *)
(* 0x3C 0x01, the set_ram_area sequence for (0, 0, W, H), 0x46 0xF7, wait, *)
(* 0x47 0xF7, wait: three waits and nothing else.                          *)
C9_InitializeControllerSequence ==
    Succeeded("initialize_controller") =>
        /\ Flat(trace) =
              C(18) \o W
              \o C(24) \o D(<<128>>)
              \o C(12) \o D(<<174, 199, 195, 192, 192, 64>>)
              \o C(1) \o D(<<lo(DISPLAY_HEIGHT - 1), hi(DISPLAY_HEIGHT - 1), 2>>)
              \o C(60) \o D(<<1>>)
              \o ExpectedRamArea(0, 0, DISPLAY_WIDTH, DISPLAY_HEIGHT)
              \o C(70) \o D(<<247>>) \o W
              \o C(71) \o D(<<247>>) \o W
        /\ Len(SelectSeq(trace, LAMBDA e : e.k = "wait")) = 3

C9_Witness ==
    /\ Succeeded("initialize_controller")
    /\ HasPair(Flat(trace), <<"c", 71>>, <<"d", 247>>)

(* C10: when the busy line is never low during initialize_controller and   *)
(* no transport write fails, the call returns WaitForBusy at the first     *)
(* wait-for-idle, the one after soft reset, and nothing is sent after it.  *)
C10_BusyNeverLow ==
    (/\ Finished("initialize_controller")
     /\ ~low_seen
     /\ result \notin {<<"SendCommand">>, <<"SendData">>}) =>
        /\ result = <<"WaitForBusy">>
        /\ Flat(trace) = C(18) \o W

C10_Witness ==
    /\ Finished("initialize_controller")
    /\ ~low_seen
    /\ result = <<"WaitForBusy">>
    /\ Len(trace) = 2

---------------------------------------------------------------------------
(* The failure-free sequences of the wire protocol, method by method       *)

ExpectedInitializeController ==
    C(18) \o W
    \o C(24) \o D(<<128>>)
    \o C(12) \o D(<<174, 199, 195, 192, 192, 64>>)
    \o C(1) \o D(<<lo(DISPLAY_HEIGHT - 1), hi(DISPLAY_HEIGHT - 1), 2>>)
    \o C(60) \o D(<<1>>)
    \o ExpectedRamArea(0, 0, DISPLAY_WIDTH, DISPLAY_HEIGHT)
    \o C(70) \o D(<<247>>) \o W
    \o C(71) \o D(<<247>>) \o W

\* the RAM plane writes of display in mode m
ExpectedPlanes(m, frame) ==
    C(36) \o D(frame)
    \o (IF m \in {"Full", "HalfRefresh"} THEN C(38) \o D(frame) ELSE <<>>)

ExpectedDisplay(mode, on, lut, frame) ==
    LET m == IF on THEN mode ELSE "HalfRefresh"
    IN  ExpectedRamArea(0, 0, DISPLAY_WIDTH, DISPLAY_HEIGHT)
        \o ExpectedPlanes(m, frame)
        \o ExpectedRefresh(m, on, lut, FALSE)

ExpectedDeepSleep(on) ==
    (IF on THEN C(33) \o D(<<64>>) \o C(34) \o D(<<3>>) \o W ELSE <<>>)
    \o C(16) \o D(<<1>>)

\* the failure-free sequence of the call c
ExpectedOf(c) ==
    CASE c.fn = "set_ram_area"          -> ExpectedRamArea(c.x, c.y, c.w, c.h)
      [] c.fn = "initialize_controller" -> ExpectedInitializeController
      [] c.fn = "refresh"               -> ExpectedRefresh(c.mode, c.on, c.lut, c.off)
      [] c.fn = "display"               -> ExpectedDisplay(c.mode, c.on, c.lut, c.frame)
      [] c.fn = "enter_deep_sleep"      -> ExpectedDeepSleep(c.on)
      [] OTHER                          -> <<>>

\* the values of the error type of each method
ErrorsOf(fn) ==
    LET send == {<<"SendCommand">>, <<"SendData">>}
        wait == {<<"WaitForBusy">>}
        in(tag, errors) == {<<tag>> \o e : e \in errors}
    IN  CASE fn = "set_ram_area"          -> send
          [] fn = "initialize_controller" -> send \cup wait \cup in("SetRamArea", send)
          [] fn = "refresh"               -> send \cup wait
          [] fn = "display"               -> in("SetRamArea", send) \cup send
                                             \cup in("Refresh", send \cup wait)
          [] fn = "enter_deep_sleep"      -> send \cup wait
          [] OTHER                        -> {}

\* a call of one of the five sequences has returned an error (windows with
\* width >= 1 and height >= 1, the ones the wire protocol defines)
Failed ==
    /\ phase = "done"
    /\ call.fn \in {"set_ram_area", "initialize_controller", "refresh",
                    "display", "enter_deep_sleep"}
    /\ result \notin {<<"Ok">>, <<"panic">>}
    /\ call.fn = "set_ram_area" => (call.w >= 1 /\ call.h >= 1)

(* C11: when set_ram_area, initialize_controller, refresh, display or      *)
(* enter_deep_sleep fails at a transport write or a busy wait, what was    *)
(* put on the bus is a prefix of the failure-free sequence that ends at    *)
(* the failing step (the next transaction of the sequence is the command,  *)
(* respectively the data, whose write failed; a timed-out wait is the last *)
(* thing done), the call returns exactly one value of its error type, and  *)
(* after the failure nothing more is sent and no step is taken again.      *)
C11_FailureAborts ==
    /\ [](Failed =>
            LET t == Flat(trace)
                e == ExpectedOf(call)
                kind == result[Len(result)]
            IN  /\ result \in ErrorsOf(call.fn)
                /\ IsPrefix(t, e)
                /\ kind = "SendCommand" =>
                      (Len(t) < Len(e) /\ e[Len(t) + 1][1] = "c")
                /\ kind = "SendData" =>
                      (Len(t) < Len(e) /\ e[Len(t) + 1][1] = "d")
                /\ kind = "WaitForBusy" =>
                      (Len(t) >= 1 /\ t[Len(t)] = <<"w", 0>>))
    /\ [][(phase = "done" /\ result # <<"Ok">>) =>
            \/ (trace' = trace /\ pc' = pc /\ result' = result)
            \/ phase' = "idle"]_vars

C11_Witness ==
    /\ Finished("display")
    /\ call.on /\ call.mode = "Full"
    /\ result = <<"SendData">>
    /\ trace[Len(trace)] = Cmd(38)

\* the stage of display in which its transaction number n lies
StageOf(n, mode, on, frame) ==
    LET m      == IF on THEN mode ELSE "HalfRefresh"
        area   == Len(ExpectedRamArea(0, 0, DISPLAY_WIDTH, DISPLAY_HEIGHT))
        planes == Len(ExpectedPlanes(m, frame))
    IN  IF n <= area THEN "set_ram_area"
        ELSE IF n <= area + planes THEN "planes"
        ELSE "refresh"

(* C12: the error display returns names the stage that failed: it is       *)
(* SetRamArea(..) exactly when the failing write is one of set_ram_area,   *)
(* SendCommand or SendData exactly when it is one of the RAM plane writes, *)
(* Refresh(..) exactly when the failing step is one of refresh, and a busy *)
(* timeout is always Refresh(WaitForBusy).                                 *)
C12_DisplayErrorStage ==
    (Finished("display") /\ result # <<"Ok">>) =>
        LET t     == Flat(trace)
            kind  == result[Len(result)]
            \* the failing step: the wait just done, or the write after t
            n     == IF kind = "WaitForBusy" THEN Len(t) ELSE Len(t) + 1
            stage == StageOf(n, call.mode, call.on, call.frame)
        IN  /\ (result[1] = "SetRamArea") <=> (stage = "set_ram_area")
            /\ (result \in {<<"SendCommand">>, <<"SendData">>}) <=> (stage = "planes")
            /\ (result[1] = "Refresh") <=> (stage = "refresh")
            /\ (kind = "WaitForBusy") => (result = <<"Refresh", "WaitForBusy">>)

C12_Witness ==
    /\ Finished("display")
    /\ result = <<"Refresh", "WaitForBusy">>
    /\ Flat(trace)[Len(Flat(trace))] = <<"w", 0>>

(* C13: wait_for_busy called on its own returns Ok exactly when the busy   *)
(* line was low at some moment of the wait and WaitForBusy exactly when it *)
(* was high from the entry until the timeout had elapsed; when the line is *)
(* low the wait completes at once, without time passing; it never returns  *)
(* Ok with the line high throughout.                                       *)
C13_WaitForIdle ==
    /\ [](Finished("wait_for_busy") =>
            /\ result \in {<<"Ok">>, <<"WaitForBusy">>}
            /\ (result = <<"Ok">>) <=> low_seen
            /\ (result = <<"WaitForBusy">>) <=> ~low_seen)
    /\ [][(call.fn = "wait_for_busy" /\ Running /\ ~busy) =>
            (waited' = 0 /\ trace' = Append(trace, Waited) /\ pc' = pc + 1)]_vars
    /\ [][(call.fn = "wait_for_busy" /\ phase = "running" /\ result' = <<"WaitForBusy">>) =>
            (busy /\ waited = TimeoutTicks /\ ~low_seen)]_vars

C13_Witness ==
    /\ Finished("wait_for_busy")
    /\ result = <<"WaitForBusy">>
    /\ busy /\ ~low_seen
    /\ trace = <<Waited>>

\* what the call did to the reset line, and the delays it took
ResetEvents ==
    SelectSeq(trace, LAMBDA e : e.k \in {"reset", "delay"})

\* event e is a legal step number i of the hardware reset
ResetStep(i, e) ==
    CASE i = 1 -> e.k = "reset" /\ e.level = "high"
      [] i = 2 -> e.k = "delay" /\ e.ms >= 20
      [] i = 3 -> e.k = "reset" /\ e.level = "low"
      [] i = 4 -> e.k = "delay" /\ e.ms >= 2
      [] i = 5 -> e.k = "reset" /\ e.level = "high"
      [] i = 6 -> e.k = "delay" /\ e.ms >= 20
      [] OTHER -> FALSE

(* C14: the hardware reset (made by initialize) drives the reset line      *)
(* high, then low, then high, with a delay of at least 20 ms after the     *)
(* first high, at least 2 ms while low and at least 20 ms after the last   *)
(* high; nothing is sent before all six steps are done, and from then on   *)
(* the line is high.                                                       *)
C14_HardwareReset ==
    call.fn = "initialize" =>
        LET r == ResetEvents
        IN  /\ \A i \in 1..Len(r) : ResetStep(i, r[i]) /\ trace[i] = r[i]
            /\ Len(r) \in {1, 2, 5, 6} => reset = "high"
            /\ Len(r) \in {3, 4} => reset = "low"
            /\ (Len(trace) > Len(r) \/ (phase = "done" /\ result # <<"Create">>)) =>
                  (Len(r) = 6 /\ reset = "high")

C14_Witness ==
    /\ call.fn = "initialize"
    /\ Len(ResetEvents) = 6
    /\ Len(trace) = 7
    /\ trace[7] = Cmd(18)
    /\ reset = "high"

---------------------------------------------------------------------------
(* What the claims about the frame buffer are stated in: the pixel address *)
(* mapping and the bits of a buffer.                                       *)

\* byte_index = hardware_y_zero_indexed * (W/8) + hardware_x / 8, with
\* hardware_x = y and hardware_y = H - x; bit_index = 7 - hardware_x mod 8
ByteIndex(x, y) ==
    (DISPLAY_HEIGHT - x - 1) * (DISPLAY_WIDTH \div 8) + (y \div 8)

BitIndex(y) ==
    7 - (y % 8)

\* the byte of a buffer at an index, and bit k of a byte
ByteAt(buf, i) ==
    IF i \in DOMAIN buf THEN buf[i] ELSE 255

BitOf(byte, k) ==
    (byte \div (2 ^ k)) % 2

\* two buffers hold the same bytes
SameBytes(a, b) ==
    \A i \in (DOMAIN a) \cup (DOMAIN b) : ByteAt(a, i) = ByteAt(b, i)

\* buffer b is buffer a with bit k of byte i equal to v and nothing else changed
IsWithBit(b, a, i, k, v) ==
    /\ BitOf(ByteAt(b, i), k) = v
    /\ \A j \in (DOMAIN a) \cup (DOMAIN b) \cup {i} :
          \A m \in 0..7 :
             (j # i \/ m # k) => BitOf(ByteAt(b, j), m) = BitOf(ByteAt(a, j), m)

\* colour Off is bit 1, colour On is bit 0
ColourBit(color) ==
    IF color = "Off" THEN 1 ELSE 0

\* the pixel is inside the panel: 0 <= x < W, 0 <= y < H
InBounds(p) ==
    p.x >= 0 /\ p.x < DISPLAY_WIDTH /\ p.y >= 0 /\ p.y < DISPLAY_HEIGHT

\* the pixel is outside the panel, or a coordinate is not a 16-bit unsigned
Outside(p) ==
    \/ p.x >= DISPLAY_WIDTH \/ p.y >= DISPLAY_HEIGHT
    \/ p.x < 0 \/ p.y < 0

\* buffer a with the pixel p drawn as the mapping says
WithPixel(a, p) ==
    LET i    == ByteIndex(p.x, p.y)
        k    == BitIndex(p.y)
        old  == ByteAt(a, i)
        byte == old - BitOf(old, k) * (2 ^ k) + ColourBit(p.color) * (2 ^ k)
    IN  [j \in (DOMAIN a) \cup {i} |-> IF j = i THEN byte ELSE a[j]]

\* a new frame with the pixels of ps drawn in order
RECURSIVE Drawn(_)
Drawn(ps) ==
    IF ps = <<>> THEN [i \in {} |-> 255]
    ELSE WithPixel(Drawn(SubSeq(ps, 1, Len(ps) - 1)), ps[Len(ps)])

\* draw_iter has just taken a pixel from its iterator
PixelTaken ==
    draw = "drawing" /\ Len(pixels') = Len(pixels) + 1

(* C17: drawing a pixel with 0 <= x < W and 0 <= y < H, on any buffer,     *)
(* changes at most the bit bit_index = 7 - (y mod 8) of the byte           *)
(* byte_index = (H - x - 1) * (W/8) + (y div 8): colour Off sets it to 1,  *)
(* colour On clears it to 0, every other bit keeps its value.              *)
C17_DrawPixelBit ==
    [][PixelTaken =>
          LET p == pixels'[Len(pixels')]
          IN  InBounds(p) =>
                 /\ draw' = "drawing"
                 /\ IsWithBit(buffer', buffer, ByteIndex(p.x, p.y),
                              BitIndex(p.y), ColourBit(p.color))]_vars

(* C18: drawing a pixel with x >= W or y >= H, or with a coordinate that   *)
(* is negative or does not fit in 16 bits, fails with OutOfBounds and      *)
(* leaves every byte of the buffer unchanged.                              *)
C18_OutOfBounds ==
    [][PixelTaken =>
          LET p == pixels'[Len(pixels')]
          IN  Outside(p) =>
                 /\ draw' = "OutOfBounds"
                 /\ buffer' = buffer
                 /\ SameBytes(buffer', buffer)]_vars

C18_Witness ==
    /\ draw = "OutOfBounds"
    /\ Len(pixels) = 2
    /\ pixels[1] = [x |-> 479, y |-> 9, color |-> "On"]
    /\ pixels[2].x = 479 /\ pixels[2].y = 480
    /\ ByteAt(buffer, 1) = 191

(* C19: draw_iter over a sequence whose first out-of-bounds pixel is at    *)
(* position k returns OutOfBounds with the buffer equal to the result of   *)
(* drawing exactly the pixels before k in order; with no out-of-bounds     *)
(* pixel it returns Ok with every pixel drawn in order.                    *)
C19_DrawManyStopsAtFirst ==
    draw \in {"Ok", "OutOfBounds", "panic"} =>
        LET out == {i \in 1..Len(pixels) : Outside(pixels[i])}
        IN  IF out # {}
            THEN LET k == CHOOSE i \in out : \A j \in out : i <= j
                 IN  /\ draw = "OutOfBounds"
                     /\ k = Len(pixels)
                     /\ SameBytes(buffer, Drawn(SubSeq(pixels, 1, k - 1)))
            ELSE /\ draw = "Ok"
                 /\ SameBytes(buffer, Drawn(pixels))

\* the last two pixels drawn are the same point in opposite colours
OppositePair ==
    /\ draw \in {"drawing", "Ok"}
    /\ Len(pixels) >= 2
    /\ LET a == pixels[Len(pixels) - 1]
           b == pixels[Len(pixels)]
       IN  a.x = b.x /\ a.y = b.y /\ a.color # b.color /\ InBounds(b)

(* C20: after the same in-bounds pixel has been drawn twice with opposite  *)
(* colours, its bit has the value it had before the two draws.             *)
C20_OppositeColoursRestore ==
    OppositePair =>
        LET b      == pixels[Len(pixels)]
            before == Drawn(SubSeq(pixels, 1, Len(pixels) - 2))
            i      == ByteIndex(b.x, b.y)
            k      == BitIndex(b.y)
        IN  BitOf(ByteAt(buffer, i), k) = BitOf(ByteAt(before, i), k)

(* C20 as amended: after a pixel with 0 <= x < H and 0 <= y < H has been   *)
(* drawn twice with opposite colours, its bit has the value of the second  *)
(* colour (Off then On: 0, On then Off: 1) whatever it was before, so the  *)
(* value it had before the two draws is restored exactly when it was that  *)
(* value already; every other bit is as it was before the two draws.       *)
C20_SecondColourStays ==
    (OppositePair /\ pixels[Len(pixels)].x < DISPLAY_HEIGHT) =>
        LET b      == pixels[Len(pixels)]
            before == Drawn(SubSeq(pixels, 1, Len(pixels) - 2))
            i      == ByteIndex(b.x, b.y)
            k      == BitIndex(b.y)
        IN  /\ IsWithBit(buffer, before, i, k, ColourBit(b.color))
            /\ (BitOf(ByteAt(buffer, i), k) = BitOf(ByteAt(before, i), k))
                  <=> (BitOf(ByteAt(before, i), k) = ColourBit(b.color))

C20_Witness ==
    /\ OppositePair
    /\ Len(pixels) = 3
    /\ pixels[1] = [x |-> 479, y |-> 9, color |-> "Off"]
    /\ pixels[2] = [x |-> 479, y |-> 9, color |-> "Off"]
    /\ pixels[3] = [x |-> 479, y |-> 9, color |-> "On"]
    /\ ByteAt(buffer, 1) = 191

---------------------------------------------------------------------------
(* The shared bus *)

\* the devices whose chip-select is asserted
Selected ==
    {d \in Devices : chip_select[d] = "low"}

\* device d holds the bus lock
HoldsLock(d) ==
    \E b \in DOMAIN lock : lock[b] = d

(* C15: in every interleaving of the writes of the display handle and of   *)
(* the SD card handle, at most one chip-select is asserted, a chip-select  *)
(* is asserted only while its handle holds the bus lock, and the bytes     *)
(* that pass while the bus is in use are the bytes of one handle and at    *)
(* most the bytes of its write.                                            *)
C15_BusMutualExclusion ==
    /\ Cardinality(Selected) <= 1
    /\ \A d \in Selected : HoldsLock(d)
    /\ \A i \in 1..Len(wire) : wire[i] = wire[1]
    /\ \A d \in Selected : Len(wire) = handle[d].sent /\ Len(wire) <= handle[d].len

C15_Witness ==
    /\ handle["display"].pc = "selected"
    /\ handle["display"].len = 2 /\ handle["display"].sent = 1
    /\ handle["sd_card"].pc = "waiting"
    /\ HoldsLock("display")
    /\ wire = <<"display">>

\* device d has the lock and has not yet released it
InCriticalSection(d) ==
    handle[d].pc \in {"locked", "selected", "deselected"}

\* the write of device d has returned: chip-select deasserted, lock released
Returned(d) ==
    handle[d].pc = "idle" /\ chip_select[d] = "high" /\ ~HoldsLock(d)

---------------------------------------------------------------------------
(* C21: a new frame has every byte 0xFF, and whatever draw operations were *)
(* made, successful or failing, the buffer has exactly (W/8) * H = 48000   *)
(* bytes: no byte exists at an index outside 0 .. (W/8) * H - 1.           *)
C21_NewFrameAllSet ==
    /\ draw = "idle" => \A i \in DOMAIN buffer : ByteAt(buffer, i) = 255
    /\ draw = "idle" => \A i \in {0, 1, BUFFER_SIZE - 1} : ByteAt(buffer, i) = 255
    /\ BUFFER_SIZE = (DISPLAY_WIDTH \div 8) * DISPLAY_HEIGHT
    /\ BUFFER_SIZE = 48000
    /\ \A i \in DOMAIN buffer : i >= 0 /\ i < (DISPLAY_WIDTH \div 8) * DISPLAY_HEIGHT

C21_Witness ==
    /\ draw = "panic"
    /\ Len(pixels) = 3
    /\ pixels[1] = [x |-> 0, y |-> 479, color |-> "On"]
    /\ pixels[2].x = 479 /\ pixels[2].y = 0 /\ pixels[2].color = "On"
    /\ pixels[3].x = 480
    /\ DOMAIN buffer = {0, BUFFER_SIZE - WIDTH_BYTES + 59}

\* the levels the call has driven the reset line to before its event number i
ResetLevelsBefore(i) ==
    LET r == SelectSeq(SubSeq(trace, 1, i - 1), LAMBDA e : e.k = "reset")
    IN  [j \in 1..Len(r) |-> r[j].level]

(* C22: initialize constructs the driver, then makes the complete hardware *)
(* reset, then runs initialize_controller: nothing is done before the      *)
(* construction, no byte is sent before the reset line has gone high, low, *)
(* high; a successful call has sent exactly the initialize_controller      *)
(* sequence after the reset and returns a driver with is_screen_on = false *)
(* and is_custom_lut_active = false; a call that fails, in the             *)
(* construction or in initialize_controller, returns no driver.            *)
C22_InitializeOrder ==
    call.fn = "initialize" =>
        /\ (phase = "running" /\ pc = 1) => trace = <<>>
        /\ result = <<"Create">> => trace = <<>>
        /\ \A i \in 1..Len(trace) :
              trace[i].k \in {"cmd", "data", "wait"} =>
                  ResetLevelsBefore(i) = <<"high", "low", "high">>
        /\ Succeeded("initialize") =>
              /\ driver
              /\ ~is_screen_on
              /\ ~is_custom_lut_active
              /\ ResetLevelsBefore(Len(trace) + 1) = <<"high", "low", "high">>
              /\ Flat(trace) = ExpectedInitializeController
        /\ (phase = "done" /\ result # <<"Ok">>) =>
              /\ ~driver
              /\ result = <<"Create">> \/ result[1] = "InitializeController"
        /\ phase = "running" => ~driver

C22_Witness ==
    /\ Succeeded("initialize")
    /\ driver
    /\ ~is_screen_on /\ ~is_custom_lut_active
    /\ trace[7] = Cmd(18)

---------------------------------------------------------------------------
(* The number of data bytes that follow a command *)

\* the position of the first command after position i of t, Len(t) + 1 if none
NextCommand(t, i) ==
    LET later == {j \in (i + 1)..Len(t) : t[j][1] = "c"}
    IN  IF later = {} THEN Len(t) + 1
        ELSE CHOOSE j \in later : \A k \in later : j <= k

\* the data bytes sent after the command at position i, before the next command
DataBytesAfter(t, i) ==
    Cardinality({j \in (i + 1)..(NextCommand(t, i) - 1) : t[j][1] = "d"})

\* the command at position i has all the data it gets: another command
\* follows it, or the call has returned Ok
CommandComplete(t, i) ==
    \/ NextCommand(t, i) <= Len(t)
    \/ (phase = "done" /\ result = <<"Ok">>)

\* the data byte counts of the wire-protocol table
TableBytes ==
    [c \in {68, 69, 78, 79, 12, 1, 70, 71, 26, 16} |->
        CASE c = 68 -> 2
          [] c = 69 -> 4
          [] c \in {78, 79} -> 2
          [] c = 12 -> 6
          [] c = 1  -> 3
          [] c \in {70, 71, 26, 16} -> 1]

\* the same with the X range taking its start and its end, two bytes each
SentBytes ==
    [TableBytes EXCEPT ![68] = 4]

\* every command of the table in t has counts[command] data bytes once it is
\* complete, and never more
FollowsCounts(t, counts) ==
    \A i \in 1..Len(t) :
        (t[i][1] = "c" /\ t[i][2] \in DOMAIN counts) =>
            /\ DataBytesAfter(t, i) <= counts[t[i][2]]
            /\ CommandComplete(t, i) => DataBytesAfter(t, i) = counts[t[i][2]]

(* C23: in every command sequence the driver emits, each command is        *)
(* followed, before the next command, by exactly the number of data bytes  *)
(* of the wire-protocol table: 2 after 0x44, 4 after 0x45, 2 after 0x4E    *)
(* and 0x4F, 6 after 0x0C, 3 after 0x01, 1 after 0x46, 0x47, 0x1A, 0x10.   *)
C23_DataByteCounts ==
    FollowsCounts(Flat(trace), TableBytes)

(* C23 as amended: the same with 4 data bytes after 0x44 (start low, start *)
(* high, end low, end high); the counts hold for every command that is     *)
(* followed by another command or whose call returned Ok, and a command    *)
(* whose call failed or panicked after it has at most that many.           *)
C23_DataByteCountsSent ==
    FollowsCounts(Flat(trace), SentBytes)

C23_Witness ==
    /\ Succeeded("initialize_controller")
    /\ LET t == Flat(trace)
       IN  /\ t[20] = <<"c", 68>>
           /\ DataBytesAfter(t, 20) = 4
           /\ t[25] = <<"c", 69>>
           /\ t[5] = <<"c", 12>> /\ DataBytesAfter(t, 5) = 6
           /\ DataBytesAfter(t, Len(t) - 2) = 1

---------------------------------------------------------------------------
\* the call has put event e on the bus
Did(e) ==
    \E i \in 1..Len(trace) : trace[i] = e

(* C24: refresh, called on its own or by display, updates is_screen_on     *)
(* last: the flag differs from the value it had at the call only after     *)
(* display-update-control-2, master-activation and the wait-for-idle are   *)
(* done, so a refresh that fails at a send or at the wait returns with     *)
(* is_screen_on as it was at the call.                                     *)
C24_ScreenFlagLast ==
    (call.fn \in {"refresh", "display"} /\ phase \in {"running", "done"}) =>
        /\ is_screen_on # call.on =>
              (Did(Cmd(34)) /\ Did(Cmd(32)) /\ Did(Waited))
        /\ (phase = "done" /\ result \notin {<<"Ok">>, <<"panic">>}) =>
              is_screen_on = call.on

---------------------------------------------------------------------------
\* enter_deep_sleep, entered with the screen on, has failed in its
\* power-down: at one of its four writes or at its wait
PowerDownFailed ==
    /\ Finished("enter_deep_sleep")
    /\ call.on
    /\ \/ result \in {<<"SendCommand">>, <<"SendData">>} /\ Len(Flat(trace)) < 4
       \/ result = <<"WaitForBusy">>

(* C25: when enter_deep_sleep is entered with is_screen_on = true and a    *)
(* step of the power-down fails (a write of 0x21, 0x40, 0x22 or 0x03, or   *)
(* the wait), 0x10 is not sent, what was sent is a prefix of 0x21 0x40     *)
(* 0x22 0x03 wait, is_screen_on is still true and the call returns an      *)
(* EnterDeepSleepError; 0x10 is sent only with is_screen_on = false.       *)
C25_PowerDownFailure ==
    /\ PowerDownFailed =>
          /\ ~Did(Cmd(16))
          /\ \A i \in 1..Len(trace) : trace[i].k = "data" => trace[i].bytes # <<1>>
          /\ IsPrefix(Flat(trace), C(33) \o D(<<64>>) \o C(34) \o D(<<3>>) \o W)
          /\ is_screen_on
          /\ result \in {<<"SendCommand">>, <<"SendData">>, <<"WaitForBusy">>}
    /\ (call.fn = "enter_deep_sleep" /\ Did(Cmd(16))) => ~is_screen_on
    /\ (Finished("enter_deep_sleep") /\ call.on /\ result = <<"WaitForBusy">>) =>
          Flat(trace) = C(33) \o D(<<64>>) \o C(34) \o D(<<3>>) \o W

C25_Witness ==
    /\ PowerDownFailed
    /\ result = <<"SendData">>
    /\ trace = <<Cmd(33), Data(<<64>>), Cmd(34)>>
    /\ is_screen_on

---------------------------------------------------------------------------
\* the 16-bit value whose low and high byte are the data at positions i, i + 1
ValueAt(t, i) ==
    t[i][2] + 256 * t[i + 1][2]

---------------------------------------------------------------------------
(* C28: for every pixel with 0 <= x < W and 0 <= y < H that draw_iter      *)
(* takes, H - x does not underflow and is at least 1, the byte index is    *)
(* inside the buffer (0 <= byte_index < 48000), and the draw does not      *)
(* panic.                                                                  *)
C28_AcceptedPixelNoPanic ==
    \A i \in 1..Len(pixels) :
        InBounds(pixels[i]) =>
            /\ DISPLAY_HEIGHT - pixels[i].x >= 1
            /\ ByteIndex(pixels[i].x, pixels[i].y) >= 0
            /\ ByteIndex(pixels[i].x, pixels[i].y) < (DISPLAY_WIDTH \div 8) * DISPLAY_HEIGHT
            /\ ~(draw = "panic" /\ i = Len(pixels))

---------------------------------------------------------------------------
\* the token at position i of t ends a transaction that starts internal
\* activity of the controller: soft reset, master activation, or the 0xF7
\* parameter of an auto-write command
TriggersActivity(t, i) ==
    \/ t[i] = <<"c", 18>>
    \/ t[i] = <<"c", 32>>
    \/ i >= 2 /\ t[i] = <<"d", 247>> /\ t[i - 1] \in {<<"c", 70>>, <<"c", 71>>}

(* C29: in every sequence the driver emits, each wait-for-idle directly    *)
(* follows soft reset (0x12), the 0xF7 parameter of an auto-write command  *)
(* (0x46, 0x47) or master activation (0x20), and between a                 *)
(* display-update-control-2 (0x22) and the next wait-for-idle there is a   *)
(* master activation.                                                      *)
C29_WaitFollowsTrigger ==
    LET t == Flat(trace)
    IN  /\ \A i \in 1..Len(t) :
              t[i] = <<"w", 0>> => (i >= 2 /\ TriggersActivity(t, i - 1))
        /\ \A i \in 1..Len(t) : \A j \in (i + 1)..Len(t) :
              (t[i] = <<"c", 34>> /\ t[j] = <<"w", 0>>) =>
                  \E k \in (i + 1)..(j - 1) : t[k] = <<"c", 32>>

---------------------------------------------------------------------------
(* The driver on the shared bus *)

\* a write of the display handle is in progress
DisplayWriting ==
    handle["display"].pc # "idle"

\* the display handle has just moved a byte
DisplayByteMoves ==
    handle'["display"].sent = handle["display"].sent + 1

(* C26: every write of a command opcode is made with the data/command     *)
(* line low and is one byte long, every write of parameter or pixel data   *)
(* is made with the line high; the line has its level before the write     *)
(* starts (before the lock is asked for and before each byte moves) and    *)
(* does not change while the write is in progress.                         *)
C26_DataCommandLine ==
    /\ [](DisplayWriting =>
            /\ Running
            /\ Cur.op \in {"cmd", "data"}
            /\ Cur.op = "cmd" => (data_command = "low" /\ handle["display"].len = 1
                                  /\ Len(Cur.bytes) = 1)
            /\ Cur.op = "data" => (data_command = "high"
                                   /\ handle["display"].len = Len(Cur.bytes)))
    /\ [](\A i \in 1..Len(trace) : trace[i].k = "cmd" => Len(trace[i].bytes) = 1)
    /\ [][DisplayByteMoves =>
            (data_command = (IF Cur.op = "cmd" THEN "low" ELSE "high")
             /\ data_command' = data_command)]_vars
    /\ [][(DisplayWriting /\ handle'["display"].pc # "waiting") =>
            data_command' = data_command]_vars

C26_Witness ==
    /\ call.fn = "display" /\ call.on /\ call.mode = "Fast"
    /\ handle["display"].pc = "selected"
    /\ handle["display"].sent = 1
    /\ Cur.op = "data" /\ Len(Cur.bytes) = FrameLen
    /\ data_command = "high"
    /\ trace[Len(trace)] = Cmd(36)

\* the driver is suspended in wait_for_busy or in a delay of the reset
DisplaySuspended ==
    Running /\ Cur.op \in {"wait", "delay"}

(* C30: while the driver is suspended in wait_for_busy or in a delay of    *)
(* the reset, the bus lock is free and both chip-selects are deasserted.   *)
C30_LockFreeWhileWaiting ==
    DisplaySuspended =>
        /\ \A b \in DOMAIN lock : lock[b] = "free"
        /\ \A d \in Devices : chip_select[d] = "high"

(* C30 as amended: while the driver is suspended in wait_for_busy or in a  *)
(* delay of the reset, the display handle has no write in progress: it     *)
(* does not hold the bus lock and does not wait for it, and the            *)
(* chip-select of the display is deasserted; the lock is free or held by   *)
(* the SD card handle, which is never kept waiting by the display then.    *)
C30_DisplayOffBusWhileWaiting ==
    DisplaySuspended =>
        /\ handle["display"] = IdleHandle
        /\ ~HoldsLock("display")
        /\ chip_select["display"] = "high"
        /\ \A b \in DOMAIN lock : lock[b] \in {"free", "sd_card"}
        /\ handle["sd_card"].pc = "waiting" =>
              \A b \in DOMAIN lock : lock[b] = "free"

\* the SD card handle has made a whole write while the driver waits for the
\* busy line, which is still high
C30_Witness ==
    /\ DisplaySuspended
    /\ Cur.op = "wait" /\ busy /\ waited = 1
    /\ handle["sd_card"].pc = "deselected"
    /\ handle["sd_card"].len = MaxWrite
    /\ handle["sd_card"].sent = MaxWrite
    /\ wire = [i \in 1..MaxWrite |-> "sd_card"]
    /\ HoldsLock("sd_card")

---------------------------------------------------------------------------
\* a command of the call has reached the bus and the next write of the
\* driver is data that belongs to it
AwaitingData ==
    /\ Running
    /\ trace # <<>>
    /\ trace[Len(trace)].k \in {"cmd", "data"}
    /\ \/ Cur.op = "data"
       \/ Cur.op = "dc" /\ pc < Len(ops) /\ ops[pc + 1].op = "data"

\* the SD card handle has the bus: its chip-select is asserted
StorageOnBus ==
    chip_select["sd_card"] = "low"

(* C31: no transaction of the SD card is on the bus between a command byte *)
(* of the display and the last data byte that belongs to that command.     *)
C31_CommandAndDataUninterrupted ==
    AwaitingData => ~StorageOnBus

(* C31 as amended: each write of the display (one command byte, or the     *)
(* bytes of one send_data) is uninterrupted: from the moment the display   *)
(* handle has the lock to the moment it releases it the SD card handle     *)
(* neither holds the lock nor has its chip-select asserted, and every byte *)
(* that passes is a byte of the display; the bytes of the display reach    *)
(* the bus in the order of the sequence of the call.  Between two writes   *)
(* of the display, those of a command and of its data included, the SD     *)
(* card may make whole transactions.                                       *)
C31_EachWriteUninterrupted ==
    /\ InCriticalSection("display") =>
          /\ HoldsLock("display")
          /\ ~HoldsLock("sd_card")
          /\ ~StorageOnBus
          /\ ~InCriticalSection("sd_card")
          /\ chip_select["display"] = "low" =>
                (\A i \in 1..Len(wire) : wire[i] = "display")
    /\ StorageOnBus =>
          (HoldsLock("sd_card") /\ \A i \in 1..Len(wire) : wire[i] = "sd_card")
    /\ call.fn \in {"display", "enter_deep_sleep"} =>
          IsPrefix(Flat(trace), ExpectedOf(call))

\* the SD card has made a whole write between 0x44 and the first byte of
\* the X range, while the display handle waits for the lock
C31_Witness ==
    /\ AwaitingData
    /\ call.fn = "display"
    /\ trace[Len(trace)] = Cmd(68)
    /\ handle["display"].pc = "waiting"
    /\ handle["sd_card"].pc = "selected"
    /\ handle["sd_card"].sent = MaxWrite
    /\ wire = [i \in 1..MaxWrite |-> "sd_card"]

---------------------------------------------------------------------------
\* the data bytes that directly follow the command byte b in the trace
BytesAfter(b) ==
    LET t == Flat(trace)
    IN  {t[i + 1][2] : i \in {j \in 1..(Len(t) - 1) :
                                  t[j] = <<"c", b>> /\ t[j + 1][1] = "d"}}

(* C33: in every state reachable through initialize, display and           *)
(* enter_deep_sleep is_custom_lut_active is false; the refresh of a        *)
(* display call is made with turn_screen_off = false (it never clears      *)
(* is_screen_on and the bits 0x03 are not in its flag byte), so the byte   *)
(* a display call sends after 0x22 is 0x1C, 0x34 or 0xD4, and it is 0x1C   *)
(* or 0x34 (Fast, Full) only when is_screen_on was true at the call and is *)
(* true when the byte is sent.                                             *)
C33_DisplayFlagBytes ==
    /\ ~is_custom_lut_active
    /\ (call.fn = "display" /\ phase \in {"running", "done"}) =>
          /\ ~call.lut
          /\ \A i \in 1..Len(ops) : ops[i].op = "screen" => ops[i].flag
          /\ BytesAfter(34) \subseteq {28, 52, 212}
          /\ \A b \in BytesAfter(34) : OrBits(b, 3) # b
          /\ (BytesAfter(34) \cap {28, 52} # {}) => (call.on /\ is_screen_on)
          /\ 28 \in BytesAfter(34) => call.mode = "Fast"
          /\ 52 \in BytesAfter(34) => call.mode = "Full"
          /\ Succeeded("display") => BytesAfter(34) # {}

\* a Fast display made with the screen on has sent 0x22 0x1C
C33_Witness ==
    /\ Succeeded("display")
    /\ call.on /\ is_screen_on
    /\ ~is_custom_lut_active
    /\ call.mode = "Fast"
    /\ BytesAfter(34) = {28}

---------------------------------------------------------------------------
\* the points the drawn pixel is compared with: those handed to draw_iter,
\* their neighbours, and both sides of the limits between bytes
OtherPoints ==
    [x : PointXs \cup {1, 478}, y : PointYs \cup {7, 8, 15, 16, 472}]

\* where draw_iter puts the point q: the byte index and the bit index
Place(q) ==
    LET a == Address(q.x, q.y, overflow_checks)
    IN  <<a.index, a.bit>>

\* the stored bit of the point q in a buffer
StoredBit(buf, q) ==
    BitOf(ByteAt(buf, Place(q)[1]), Place(q)[2])

(* C34: the pixel-address mapping is injective on accepted pixels: the     *)
(* pixel draw_iter takes and any other accepted point (x, y) are put at    *)
(* different (byte_index, bit_index), and drawing the pixel leaves the     *)
(* stored bit of every other accepted point as it was.                     *)
C34_AddressInjective ==
    [][PixelTaken =>
          LET p == pixels'[Len(pixels')]
          IN  Accepted(p) =>
                 \A q \in OtherPoints :
                    (Accepted(q) /\ <<q.x, q.y>> # <<p.x, p.y>>) =>
                        /\ Place(q) # Place(p)
                        /\ StoredBit(buffer', q) = StoredBit(buffer, q)]_vars

\* two pixels of one byte have been drawn, and the bit of the first is as
\* it was drawn
C34_Witness ==
    /\ draw = "drawing"
    /\ pixels = <<[x |-> 479, y |-> 0, color |-> "On"],
                  [x |-> 479, y |-> 1, color |-> "On"]>>
    /\ Place(pixels[1])[1] = Place(pixels[2])[1]
    /\ StoredBit(buffer, pixels[1]) = 0
    /\ ByteAt(buffer, 0) = 63

---------------------------------------------------------------------------
(* The application *)

\* the threshold table of each of the two pins, in the order of values
Tables ==
    <<PIN_1_RANGES, PIN_2_RANGES>>

\* the indices i with ranges[i + 1] < v <= ranges[i] in table T; element i
\* of the table is T[i + 1]
ButtonsAt(T, v) ==
    {i \in 0..(Len(T) - 2) : T[i + 2] < v /\ v <= T[i + 1]}

(* C35: for every reading v and each of the two threshold tables,          *)
(* get_active_button returns Some(i) exactly when ranges[i + 1] < v <=     *)
(* ranges[i], at most one i is such, it returns None exactly when v = 0 or *)
(* v is greater than the first threshold (2850 for pin one, 2350 for pin   *)
(* two), and it never reads past the end of the table.                     *)
C35_ActiveButton ==
    \A p \in {1, 2} :
        LET T == Tables[p]
            v == values[p]
            b == buttons[p]
        IN  /\ b # <<"panic">>
            /\ Cardinality(ButtonsAt(T, v)) <= 1
            /\ \A i \in 0..(Len(T) - 2) : (b = <<"Some", i>>) <=> (i \in ButtonsAt(T, v))
            /\ b[1] = "Some" => b[2] \in 0..(Len(T) - 2)
            /\ (b = <<"None">>) <=> (v = 0 \/ v > T[1])
            /\ T[1] = (IF p = 1 THEN 2850 ELSE 2350)

\* a reading on a threshold of pin one and one just above the lowest
\* threshold of pin two
C35_Witness ==
    /\ values = <<2300, 851>>
    /\ buttons = <<(<<"Some", 1>>), (<<"Some", 0>>)>>

(* C32: in the power-button task the platform deep sleep is entered only   *)
(* after an enter_deep_sleep call has returned success, that call is made  *)
(* only after the display(Full, all-zero frame) call of the same iteration *)
(* has returned success, and when display or enter_deep_sleep fails the    *)
(* task goes back to waiting for the button without entering the platform  *)
(* deep sleep.                                                             *)
C32_PowerButtonOrder ==
    /\ [](task \in {"timer", "sleep_deep"} => (asleep /\ ~is_screen_on))
    /\ [](task = "enter_deep_sleep" => (call.fn = "enter_deep_sleep" /\ call.on))
    /\ [](task = "display" =>
             /\ call.fn = "display" /\ call.mode = "Full"
             /\ \A i \in 1..Len(call.frame) : call.frame[i] = 0)
    /\ [][/\ (task' = "sleep_deep" /\ task # "sleep_deep") => task = "timer"
          /\ (task' = "timer" /\ task # "timer") =>
                (task = "enter_deep_sleep" /\ Succeeded("enter_deep_sleep"))
          /\ (task' = "enter_deep_sleep" /\ task # "enter_deep_sleep") =>
                task = "displayed"
          /\ (task' = "displayed" /\ task # "displayed") =>
                (task = "display" /\ Succeeded("display"))
          /\ (task \in {"display", "enter_deep_sleep"} /\ task' # task
              /\ result # <<"Ok">>) =>
                task' = "wait_for_low"]_vars

\* the platform deep sleep has been entered, the controller asleep
C32_Witness ==
    /\ task = "sleep_deep"
    /\ asleep /\ ~is_screen_on
    /\ phase = "idle"

=============================================================================
